---------------------------- MODULE Spec2Model ----------------------------
(***************************************************************************)
(* Voice-controlled game input: the decision engines, key handling and     *)
(* calibration of the program variants Test7.py, Test8.py, Test10.py and   *)
(* Test11.py.                                                              *)
(*                                                                         *)
(* Each variant is a program of its own; it gets its own group of          *)
(* variables, its own actions and its own specification (SpecT10, SpecT8,  *)
(* SpecT11, SpecT7).  A specification leaves the variables of the other    *)
(* variants at their initial values.                                       *)
(*                                                                         *)
(* Numbers.  The code computes in float64.  Feature values are modelled as *)
(* integers and thresholds as exact rationals <<n, d>> (d > 0, lowest      *)
(* terms), so that mean, median, *0.4, *0.8 and the ratio tests are        *)
(* computed exactly as written in the code, without rounding.              *)
(***************************************************************************)
EXTENDS Integers, Sequences, FiniteSets, TLC

(***************************************************************************)
(* Exact rational arithmetic                                               *)
(***************************************************************************)
RECURSIVE Gcd(_, _)
Gcd(a, b) == IF b = 0 THEN a ELSE Gcd(b, a % b)

Abs(x) == IF x < 0 THEN -x ELSE x

Rat(n, d) ==
    LET g == Gcd(Abs(n), d) IN
    IF n = 0 THEN <<0, 1>> ELSE <<n \div g, d \div g>>

R(n) == <<n, 1>>

RatAdd(a, b) == Rat(a[1] * b[2] + b[1] * a[2], a[2] * b[2])
RatMul(a, b) == Rat(a[1] * b[1], a[2] * b[2])
RatLT(a, b)  == a[1] * b[2] < b[1] * a[2]
RatMax(a, b) == IF RatLT(a, b) THEN b ELSE a
RatMin(a, b) == IF RatLT(b, a) THEN b ELSE a
RatHalf(a)   == Rat(a[1], a[2] * 2)

SeqMap(Op(_), s) == [i \in 1..Len(s) |-> Op(s[i])]

RECURSIVE RatSum(_)
RatSum(s) == IF s = <<>> THEN R(0) ELSE RatAdd(Head(s), RatSum(Tail(s)))

\* np.mean of a non-empty list
Mean(s) == RatMul(RatSum(s), Rat(1, Len(s)))

RECURSIVE RatMaxSeq(_)
\* np.max of a non-empty list
RatMaxSeq(s) ==
    IF Len(s) = 1 THEN s[1] ELSE RatMax(Head(s), RatMaxSeq(Tail(s)))

\* insertion of x into the ascending sequence s
RECURSIVE RatInsert(_, _)
RatInsert(x, s) ==
    IF s = <<>> THEN <<x>>
    ELSE IF RatLT(Head(s), x) THEN <<Head(s)>> \o RatInsert(x, Tail(s))
    ELSE <<x>> \o s

RECURSIVE RatSort(_)
RatSort(s) == IF s = <<>> THEN <<>> ELSE RatInsert(Head(s), RatSort(Tail(s)))

\* np.median of a non-empty list: the middle element of the sorted list, or
\* the mean of the two middle elements when the length is even
Median(s) ==
    LET t == RatSort(s)
        n == Len(t)
    IN  IF n % 2 = 1 THEN t[(n + 1) \div 2]
        ELSE RatHalf(RatAdd(t[n \div 2], t[n \div 2 + 1]))

\* x > t  for an integer feature x and a rational threshold t
GT(x, t) == RatLT(t, R(x))
\* x < t
LT(x, t) == RatLT(R(x), t)
\* num / (den + 1) > t   (the code's ratio tests)
RatioGT(num, den, t) == RatLT(t, Rat(num, den + 1))

(***************************************************************************)
(* Feature vectors.  A spectrum is (rms, e_pitch, e_low, e_mid, e_high).   *)
(***************************************************************************)
Spectrum(v, p, lo, mi, hi) == [vol |-> v, pitch |-> p, low |-> lo, mid |-> mi, high |-> hi]

\* get_spectrum's result when the read fails
Zero == Spectrum(0, 0, 0, 0, 0)

(***************************************************************************)
(* Test10.py: AudioProcessor (worker threads running process_loop) and     *)
(* VoiceApp (the Tk UI thread).  No lock protects the shared fields, so    *)
(* every read and write of a shared field is a step of its own.            *)
(***************************************************************************)

\* bound: number of process_loop threads start() may spawn in one run
MaxThreads == 2

UI == 0
Workers10 == 1..MaxThreads

\* apply_keys' list [(KEY_ACCEL, up), (KEY_BRAKE, down), (KEY_LEFT, left), (KEY_RIGHT, right)]
KeyOrder == <<"up", "down", "left", "right">>
KeyNames == {"up", "down", "left", "right", "enter"}

\* blocks the audio stream delivers in the Test10 runs
Quiet   == Spectrum(100, 10, 9, 9, 9)
VoicedO == Spectrum(2000, 2000, 999, 100, 0)
VoicedE == Spectrum(2000, 2000, 99, 1000, 0)
Shh     == Spectrum(2000, 100, 9, 99, 100)
Sss     == Spectrum(2000, 100, 9, 9, 100)
Clap    == Spectrum(20000, 500, 99, 99, 100)
StreamBlocks10 == {Zero, VoicedE, Clap}

\* what each recording step of the wizard captures from an open stream
\* (run_step's data list): the user makes the sound the step asks for
WizData10 == << <<Quiet>>, <<VoicedO, VoicedO>>, <<VoicedE>>, <<Shh>>, <<Sss>>, <<Quiet, Clap>> >>

VARIABLES
    t10_running,      \* AudioProcessor.running
    t10_calibrating,  \* AudioProcessor.calibrating
    t10_stream,       \* AudioProcessor.stream: "none", "open" or "closed"
    t10_pressed,      \* AudioProcessor.pressed
    t10_thresh,       \* the five threshold fields of AudioProcessor
    t10_pc,           \* position of each process_loop thread
    t10_blk,          \* each worker's local (vol, e_pitch, e_low, e_mid, e_high)
    t10_ak,           \* each thread's activation of apply_keys
    t10_ui,           \* position of the UI thread
    t10_results,      \* run_calibration_wizard's results, in step order
    t10_btn_calib,    \* VoiceApp.btn_calib is enabled
    t10_nthreads,     \* number of process_loop threads spawned so far
    t10_lastEv,       \* command sink: last event received for each key
    t10_dupDown,      \* command sink: some keyDown arrived for a key that was down
    t10_dupUp         \* command sink: some keyUp arrived for a key that was not down

varsT10 == <<t10_running, t10_calibrating, t10_stream, t10_pressed, t10_thresh,
             t10_pc, t10_blk, t10_ak, t10_ui, t10_results, t10_btn_calib,
             t10_nthreads, t10_lastEv, t10_dupDown, t10_dupUp>>

AkOff == [st |-> "off", i |-> 1, tgt |-> <<FALSE, FALSE, FALSE, FALSE>>]
AkStart(up, down, left, right) == [st |-> "test", i |-> 1, tgt |-> <<up, down, left, right>>]

InitT10 ==
    /\ t10_running = FALSE
    /\ t10_calibrating = FALSE
    /\ t10_stream = "none"
    /\ t10_pressed = [k \in KeyNames |-> FALSE]
    /\ t10_thresh = [silence_thresh |-> R(500), respawn_thresh |-> R(15000),
                     pitch_thresh |-> R(1000), ratio_oe |-> Rat(3, 2),
                     ratio_ssh |-> R(3)]
    /\ t10_pc = [w \in Workers10 |-> "unborn"]
    /\ t10_blk = [w \in Workers10 |-> Zero]
    /\ t10_ak = [t \in {UI} \cup Workers10 |-> AkOff]
    /\ t10_ui = [pc |-> "idle", op |-> "none", i |-> 0]
    /\ t10_results = <<>>
    /\ t10_btn_calib = TRUE
    /\ t10_nthreads = 0
    /\ t10_lastEv = [k \in KeyNames |-> "none"]
    /\ t10_dupDown = FALSE
    /\ t10_dupUp = FALSE

\* ---- the decision tree of process_loop -----------------------------------
Decide10(b, th) ==
    IF GT(b.vol, th.respawn_thresh) THEN
        [respawn |-> TRUE, up |-> FALSE, down |-> FALSE, left |-> FALSE, right |-> FALSE]
    ELSE IF GT(b.vol, th.silence_thresh) THEN
        IF GT(b.pitch, th.pitch_thresh) THEN
            IF RatioGT(b.mid, b.low, th.ratio_oe)
            THEN [respawn |-> FALSE, up |-> TRUE, down |-> FALSE, left |-> TRUE, right |-> FALSE]
            ELSE [respawn |-> FALSE, up |-> TRUE, down |-> FALSE, left |-> FALSE, right |-> TRUE]
        ELSE
            IF RatioGT(b.high, b.mid, th.ratio_ssh) \/ RatioGT(b.high, b.mid, R(5))
            THEN [respawn |-> FALSE, up |-> TRUE, down |-> FALSE, left |-> FALSE, right |-> FALSE]
            ELSE [respawn |-> FALSE, up |-> FALSE, down |-> TRUE, left |-> FALSE, right |-> FALSE]
    ELSE
        [respawn |-> FALSE, up |-> FALSE, down |-> FALSE, left |-> FALSE, right |-> FALSE]

\* ---- the command sink (pydirectinput) -------------------------------------
SinkDown10(k) ==
    /\ t10_dupDown' = (t10_dupDown \/ t10_lastEv[k] = "down")
    /\ t10_lastEv' = [t10_lastEv EXCEPT ![k] = "down"]
    /\ UNCHANGED t10_dupUp

SinkUp10(k) ==
    /\ t10_dupUp' = (t10_dupUp \/ t10_lastEv[k] # "down")
    /\ t10_lastEv' = [t10_lastEv EXCEPT ![k] = "up"]
    /\ UNCHANGED t10_dupDown

\* pydirectinput.press: keyDown immediately followed by keyUp
SinkPress10(k) ==
    /\ t10_dupDown' = (t10_dupDown \/ t10_lastEv[k] = "down")
    /\ t10_lastEv' = [t10_lastEv EXCEPT ![k] = "up"]
    /\ UNCHANGED t10_dupUp

SinkIdle10 == UNCHANGED <<t10_lastEv, t10_dupDown, t10_dupUp>>

\* ---- apply_keys, one key at a time, for thread t (a worker or the UI) -----
AkNext(a) == IF a.i < 4 THEN [a EXCEPT !.st = "test", !.i = a.i + 1]
             ELSE AkOff

\* the two tests of the loop body: "if s and not self.pressed[k]" /
\* "elif not s and self.pressed[k]"
AkTest(t) ==
    /\ t10_ak[t].st = "test"
    /\ LET a == t10_ak[t]
           k == KeyOrder[a.i]
           s == a.tgt[a.i]
       IN  t10_ak' = [t10_ak EXCEPT ![t] =
                IF s /\ ~t10_pressed[k] THEN [a EXCEPT !.st = "down"]
                ELSE IF ~s /\ t10_pressed[k] THEN [a EXCEPT !.st = "up"]
                ELSE AkNext(a)]
    /\ SinkIdle10
    /\ UNCHANGED <<t10_running, t10_calibrating, t10_stream, t10_pressed, t10_thresh,
                   t10_pc, t10_blk, t10_ui, t10_results, t10_btn_calib, t10_nthreads>>

\* "pydirectinput.keyDown(k); self.pressed[k] = True".  The key event touches
\* only the sink and commutes with every step of the other threads, so the
\* event and the assignment are one step.
AkKeyDown(t) ==
    /\ t10_ak[t].st = "down"
    /\ SinkDown10(KeyOrder[t10_ak[t].i])
    /\ t10_pressed' = [t10_pressed EXCEPT ![KeyOrder[t10_ak[t].i]] = TRUE]
    /\ t10_ak' = [t10_ak EXCEPT ![t] = AkNext(t10_ak[t])]
    /\ UNCHANGED <<t10_running, t10_calibrating, t10_stream, t10_thresh,
                   t10_pc, t10_blk, t10_ui, t10_results, t10_btn_calib, t10_nthreads>>

\* "pydirectinput.keyUp(k); self.pressed[k] = False"
AkKeyUp(t) ==
    /\ t10_ak[t].st = "up"
    /\ SinkUp10(KeyOrder[t10_ak[t].i])
    /\ t10_pressed' = [t10_pressed EXCEPT ![KeyOrder[t10_ak[t].i]] = FALSE]
    /\ t10_ak' = [t10_ak EXCEPT ![t] = AkNext(t10_ak[t])]
    /\ UNCHANGED <<t10_running, t10_calibrating, t10_stream, t10_thresh,
                   t10_pc, t10_blk, t10_ui, t10_results, t10_btn_calib, t10_nthreads>>

\* ---- process_loop, thread w -----------------------------------------------
\* "while self.running:"
W10Loop(w) ==
    /\ t10_pc[w] = "loop"
    /\ t10_pc' = [t10_pc EXCEPT ![w] = IF t10_running THEN "calchk" ELSE "done"]
    /\ SinkIdle10
    /\ UNCHANGED <<t10_running, t10_calibrating, t10_stream, t10_pressed, t10_thresh,
                   t10_blk, t10_ak, t10_ui, t10_results, t10_btn_calib, t10_nthreads>>

\* "if self.calibrating: time.sleep(0.1); continue"
W10CalChk(w) ==
    /\ t10_pc[w] = "calchk"
    /\ t10_pc' = [t10_pc EXCEPT ![w] = IF t10_calibrating THEN "loop" ELSE "read"]
    /\ SinkIdle10
    /\ UNCHANGED <<t10_running, t10_calibrating, t10_stream, t10_pressed, t10_thresh,
                   t10_blk, t10_ak, t10_ui, t10_results, t10_btn_calib, t10_nthreads>>

\* get_spectrum: a block of the open stream, or zeros when the read raises
W10Read(w) ==
    /\ t10_pc[w] = "read"
    /\ \E b \in StreamBlocks10 :
          t10_blk' = [t10_blk EXCEPT ![w] = IF t10_stream = "open" THEN b ELSE Zero]
    /\ t10_pc' = [t10_pc EXCEPT ![w] = "decide"]
    /\ SinkIdle10
    /\ UNCHANGED <<t10_running, t10_calibrating, t10_stream, t10_pressed, t10_thresh,
                   t10_ak, t10_ui, t10_results, t10_btn_calib, t10_nthreads>>

\* the decision tree (with the respawn press) and the call of apply_keys
W10Decide(w) ==
    /\ t10_pc[w] = "decide"
    /\ LET d == Decide10(t10_blk[w], t10_thresh) IN
          /\ IF d.respawn THEN SinkPress10("enter") ELSE SinkIdle10
          /\ t10_ak' = [t10_ak EXCEPT ![w] = AkStart(d.up, d.down, d.left, d.right)]
    /\ t10_pc' = [t10_pc EXCEPT ![w] = "apply"]
    /\ t10_blk' = [t10_blk EXCEPT ![w] = Zero]
    /\ UNCHANGED <<t10_running, t10_calibrating, t10_stream, t10_pressed, t10_thresh,
                   t10_ui, t10_results, t10_btn_calib, t10_nthreads>>

\* apply_keys has returned: callback_update_ui, then back to the loop test
W10Notify(w) ==
    /\ t10_pc[w] = "apply"
    /\ t10_ak[w].st = "off"
    /\ t10_pc' = [t10_pc EXCEPT ![w] = "loop"]
    /\ SinkIdle10
    /\ UNCHANGED <<t10_running, t10_calibrating, t10_stream, t10_pressed, t10_thresh,
                   t10_blk, t10_ak, t10_ui, t10_results, t10_btn_calib, t10_nthreads>>

\* ---- VoiceApp: the threshold computation of finish() ----------------------
VolOf(x) == R(x.vol)
PitchOf(x) == R(x.pitch)
RatioOE(x) == Rat(x.mid, x.low + 1)
RatioSSH(x) == Rat(x.high, x.mid + 1)

\* res = <<SILENCE, OOO, EEE, SHHH, SSSS, CLAP>>, each a non-empty data list
Finish10(res) ==
    LET sil  == RatMax(RatMul(Mean(SeqMap(VolOf, res[1])), R(2)), R(500))
        Loud(x) == GT(x.vol, sil)
        do   == SelectSeq(res[2], Loud)
        de   == SelectSeq(res[3], Loud)
        po   == IF do # <<>> THEN Median(SeqMap(PitchOf, do)) ELSE R(1000)
        pe   == IF de # <<>> THEN Median(SeqMap(PitchOf, de)) ELSE R(1000)
        pt   == RatMul(RatMin(po, pe), Rat(2, 5))
        ro   == IF do # <<>> THEN Median(SeqMap(RatioOE, do)) ELSE Rat(1, 2)
        re   == IF de # <<>> THEN Median(SeqMap(RatioOE, de)) ELSE R(2)
        r_oe == RatHalf(RatAdd(ro, re))
        r_sh == Median(SeqMap(RatioSSH, res[4]))
        r_s  == Median(SeqMap(RatioSSH, res[5]))
        r_ssh == RatHalf(RatAdd(r_sh, r_s))
    IN  [silence_thresh |-> sil, pitch_thresh |-> pt, ratio_oe |-> r_oe,
         ratio_ssh |-> r_ssh,
         respawn_thresh |-> RatMul(RatMaxSeq(SeqMap(VolOf, res[6])), Rat(4, 5))]

\* the order in which finish() assigns the fields
FinishOrder == <<"silence_thresh", "pitch_thresh", "ratio_oe", "ratio_ssh", "respawn_thresh">>

\* ---- VoiceApp: the UI thread ----------------------------------------------
\* toggle_start, engine stopped: start() opens the stream and spawns a worker
UI10ToggleStart ==
    /\ t10_ui.pc = "idle"
    /\ ~t10_running
    /\ t10_nthreads < MaxThreads
    /\ t10_stream' = "open"
    /\ t10_running' = TRUE
    /\ t10_nthreads' = t10_nthreads + 1
    /\ t10_pc' = [t10_pc EXCEPT ![t10_nthreads + 1] = "loop"]
    /\ t10_btn_calib' = FALSE
    /\ SinkIdle10
    /\ UNCHANGED <<t10_calibrating, t10_pressed, t10_thresh, t10_blk, t10_ak,
                   t10_ui, t10_results>>

\* toggle_start, engine stopped, p.open raises: start() leaves running False
UI10ToggleStartFail ==
    /\ t10_ui.pc = "idle"
    /\ ~t10_running
    /\ t10_running' = FALSE
    /\ t10_btn_calib' = FALSE
    /\ SinkIdle10
    /\ UNCHANGED <<t10_calibrating, t10_stream, t10_pressed, t10_thresh, t10_pc,
                   t10_blk, t10_ak, t10_ui, t10_results, t10_nthreads>>

\* toggle_start, engine running: stop() begins with "self.running = False"
\* and calls apply_keys(False, False, False, False)
UI10ToggleStop ==
    /\ t10_ui.pc = "idle"
    /\ t10_running
    /\ t10_running' = FALSE
    /\ t10_ak' = [t10_ak EXCEPT ![UI] = AkStart(FALSE, FALSE, FALSE, FALSE)]
    /\ t10_ui' = [pc |-> "stop_keys", op |-> "toggle", i |-> 0]
    /\ SinkIdle10
    /\ UNCHANGED <<t10_calibrating, t10_stream, t10_pressed, t10_thresh, t10_pc,
                   t10_blk, t10_results, t10_btn_calib, t10_nthreads>>

\* stop(): apply_keys has returned; stop and close the stream; the caller
\* (toggle_start or finish) returns to the event loop
UI10StopClose ==
    /\ t10_ui.pc = "stop_keys"
    /\ t10_ak[UI].st = "off"
    /\ t10_stream' = IF t10_stream = "open" THEN "closed" ELSE t10_stream
    /\ t10_btn_calib' = IF t10_ui.op = "toggle" THEN TRUE ELSE t10_btn_calib
    /\ t10_ui' = [pc |-> "idle", op |-> "none", i |-> 0]
    /\ t10_results' = <<>>
    /\ SinkIdle10
    /\ UNCHANGED <<t10_running, t10_calibrating, t10_pressed, t10_thresh, t10_pc,
                   t10_blk, t10_ak, t10_nthreads>>

\* run_calibration_wizard: "self.processor.start(idx)", a worker is spawned
UI10WizardStart ==
    /\ t10_ui.pc = "idle"
    /\ t10_btn_calib
    /\ ~t10_running
    /\ t10_nthreads < MaxThreads
    /\ t10_stream' = "open"
    /\ t10_running' = TRUE
    /\ t10_nthreads' = t10_nthreads + 1
    /\ t10_pc' = [t10_pc EXCEPT ![t10_nthreads + 1] = "loop"]
    /\ t10_ui' = [pc |-> "wiz_cal", op |-> "wizard", i |-> 0]
    /\ SinkIdle10
    /\ UNCHANGED <<t10_calibrating, t10_pressed, t10_thresh, t10_blk, t10_ak,
                   t10_results, t10_btn_calib>>

\* run_calibration_wizard: start(idx) returns without a worker, because the
\* engine is already running or because p.open raised
UI10WizardNoStart ==
    /\ t10_ui.pc = "idle"
    /\ t10_btn_calib
    /\ t10_ui' = [pc |-> "wiz_cal", op |-> "wizard", i |-> 0]
    /\ SinkIdle10
    /\ UNCHANGED <<t10_running, t10_calibrating, t10_stream, t10_pressed, t10_thresh,
                   t10_pc, t10_blk, t10_ak, t10_results, t10_btn_calib, t10_nthreads>>

\* run_calibration_wizard: "self.processor.calibrating = True"
UI10WizardSetCal ==
    /\ t10_ui.pc = "wiz_cal"
    /\ t10_calibrating' = TRUE
    /\ t10_ui' = [t10_ui EXCEPT !.pc = "wiz_rec", !.i = 1]
    /\ t10_results' = <<>>
    /\ SinkIdle10
    /\ UNCHANGED <<t10_running, t10_stream, t10_pressed, t10_thresh, t10_pc,
                   t10_blk, t10_ak, t10_btn_calib, t10_nthreads>>

ZeroOut(d) == [j \in 1..Len(d) |-> Zero]

\* run_step(i): two seconds of get_spectrum() calls on the UI thread
UI10RunStep ==
    /\ t10_ui.pc = "wiz_rec"
    /\ t10_ui.i <= 6
    /\ LET d == WizData10[t10_ui.i] IN
          t10_results' = Append(t10_results,
                                IF t10_stream = "open" THEN d ELSE ZeroOut(d))
    /\ t10_ui' = [t10_ui EXCEPT !.i = t10_ui.i + 1]
    /\ SinkIdle10
    /\ UNCHANGED <<t10_running, t10_calibrating, t10_stream, t10_pressed, t10_thresh,
                   t10_pc, t10_blk, t10_ak, t10_btn_calib, t10_nthreads>>

\* run_step(6) calls finish(), which computes the thresholds
UI10Finish ==
    /\ t10_ui.pc = "wiz_rec"
    /\ t10_ui.i = 7
    /\ t10_ui' = [t10_ui EXCEPT !.pc = "fin_write", !.i = 1]
    /\ SinkIdle10
    /\ UNCHANGED <<t10_running, t10_calibrating, t10_stream, t10_pressed, t10_thresh,
                   t10_pc, t10_blk, t10_ak, t10_results, t10_btn_calib, t10_nthreads>>

\* finish(): the five assignments to the processor's thresholds, one by one
UI10FinishWrite ==
    /\ t10_ui.pc = "fin_write"
    /\ LET f == FinishOrder[t10_ui.i] IN
          t10_thresh' = [t10_thresh EXCEPT ![f] = Finish10(t10_results)[f]]
    /\ t10_ui' = IF t10_ui.i < 5 THEN [t10_ui EXCEPT !.i = t10_ui.i + 1]
                 ELSE [t10_ui EXCEPT !.pc = "fin_calF", !.i = 0]
    /\ SinkIdle10
    /\ UNCHANGED <<t10_running, t10_calibrating, t10_stream, t10_pressed, t10_pc,
                   t10_blk, t10_ak, t10_results, t10_btn_calib, t10_nthreads>>

\* finish(): "self.processor.calibrating = False"
UI10FinishCalOff ==
    /\ t10_ui.pc = "fin_calF"
    /\ t10_calibrating' = FALSE
    /\ t10_ui' = [t10_ui EXCEPT !.pc = "stop_run"]
    /\ SinkIdle10
    /\ UNCHANGED <<t10_running, t10_stream, t10_pressed, t10_thresh, t10_pc,
                   t10_blk, t10_ak, t10_results, t10_btn_calib, t10_nthreads>>

\* finish(): "self.processor.stop()" begins
UI10FinishStop ==
    /\ t10_ui.pc = "stop_run"
    /\ t10_running' = FALSE
    /\ t10_ak' = [t10_ak EXCEPT ![UI] = AkStart(FALSE, FALSE, FALSE, FALSE)]
    /\ t10_ui' = [t10_ui EXCEPT !.pc = "stop_keys"]
    /\ SinkIdle10
    /\ UNCHANGED <<t10_calibrating, t10_stream, t10_pressed, t10_thresh, t10_pc,
                   t10_blk, t10_results, t10_btn_calib, t10_nthreads>>

Threads10 == {UI} \cup Workers10

StepT10 ==
    \/ \E t \in Threads10 : AkTest(t)
    \/ \E t \in Threads10 : AkKeyDown(t)
    \/ \E t \in Threads10 : AkKeyUp(t)
    \/ \E w \in Workers10 : W10Loop(w)
    \/ \E w \in Workers10 : W10CalChk(w)
    \/ \E w \in Workers10 : W10Read(w)
    \/ \E w \in Workers10 : W10Decide(w)
    \/ \E w \in Workers10 : W10Notify(w)
    \/ UI10ToggleStart
    \/ UI10ToggleStartFail
    \/ UI10ToggleStop
    \/ UI10StopClose
    \/ UI10WizardStart
    \/ UI10WizardNoStart
    \/ UI10WizardSetCal
    \/ UI10RunStep
    \/ UI10Finish
    \/ UI10FinishWrite
    \/ UI10FinishCalOff
    \/ UI10FinishStop

(***************************************************************************)
(* Test8.py: AudioWorker with the hold timer (decide) and apply.  The      *)
(* worker is the only thread that touches last_action, last_time and       *)
(* pressed; the UI thread only clears running (closeEvent).  Time is in    *)
(* milliseconds.  One pass of the run loop is modelled from the smoothed   *)
(* vector sm on: decide(sm), apply(action).                                *)
(***************************************************************************)

\* DECISION_HOLD = 0.15 seconds
DECISION_HOLD == 150

\* bound: number of blocks the worker processes in one run
MaxBlocks8 == 6

\* time.time() at the first call of decide: any value of at least
\* DECISION_HOLD behaves alike, because last_time starts at 0
StartTime8 == DECISION_HOLD * 4

\* time between two consecutive calls of decide
Dts8 == {50, 150}

KEY_ACCEL8 == "w"
KEY_BRAKE8 == "s"
KEY_LEFT8 == "a"
KEY_RIGHT8 == "d"
KEY_RESPAWN8 == "q"
KeyOrder8 == <<KEY_ACCEL8, KEY_BRAKE8, KEY_LEFT8, KEY_RIGHT8>>
Pressed8Keys == {KEY_ACCEL8, KEY_BRAKE8, KEY_LEFT8, KEY_RIGHT8}

\* smoothed feature vectors handed to decide
Sil8  == Spectrum(100, 10, 9, 9, 9)
E8    == Spectrum(2000, 2000, 99, 1000, 0)
O8    == Spectrum(2000, 2000, 999, 100, 0)
Shh8  == Spectrum(2000, 0, 9, 99, 100)
Sss8  == Spectrum(2000, 0, 9, 9, 100)
Loud8 == Spectrum(20000, 500, 99, 99, 100)
Smoothed8 == {Sil8, E8, O8, Shh8, Sss8, Loud8}

VARIABLES
    t8_pc,           \* the worker: "idle", "loop", "done" or "crashed"
    t8_running,      \* AudioWorker.running
    t8_thresh,       \* AudioWorker.thresh
    t8_last_action,  \* AudioWorker.last_action
    t8_last_time,    \* AudioWorker.last_time
    t8_pressed,      \* AudioWorker.pressed
    t8_now,          \* time.time() at the latest call of decide
    t8_m,            \* the smoothed vector of the latest call of decide
    t8_ret,          \* what the latest call of decide returned
    t8_nblocks,      \* blocks processed so far
    t8_lastEv,       \* command sink: last event per key
    t8_loud,         \* the latest block was above the clap threshold
    t8_edgePresses,  \* respawn presses since the volume last rose above clap (0, 1, 2 = more)
    t8_cmd,          \* the latest non-RESPAWN command decide returned
    t8_cmdTime,      \* when decide first returned t8_cmd
    t8_steadyN,      \* calls with the same vector since and including one made after the hold (0..3)
    t8_steadyRet,    \* what that call returned
    t8_steadyKeys    \* pressed after that call

varsT8 == <<t8_pc, t8_running, t8_thresh, t8_last_action, t8_last_time, t8_pressed,
            t8_now, t8_m, t8_ret, t8_nblocks, t8_lastEv, t8_loud, t8_edgePresses,
            t8_cmd, t8_cmdTime, t8_steadyN, t8_steadyRet, t8_steadyKeys>>

InitT8 ==
    /\ t8_pc = "idle"
    /\ t8_running = TRUE
    /\ t8_thresh = [silence |-> R(600), pitch |-> R(0), ratio_oe |-> Rat(3, 2),
                    ratio_ssh |-> R(3), clap |-> R(15000)]
    /\ t8_last_action = "None"
    /\ t8_last_time = 0
    /\ t8_pressed = [k \in Pressed8Keys |-> FALSE]
    /\ t8_now = StartTime8
    /\ t8_m = Zero
    /\ t8_ret = "None"
    /\ t8_nblocks = 0
    /\ t8_lastEv = [k \in Pressed8Keys \cup {KEY_RESPAWN8} |-> "none"]
    /\ t8_loud = FALSE
    /\ t8_edgePresses = 0
    /\ t8_cmd = "None"
    /\ t8_cmdTime = 0
    /\ t8_steadyN = 0
    /\ t8_steadyRet = "None"
    /\ t8_steadyKeys = [k \in Pressed8Keys |-> FALSE]

\* decide with a RESPAWN branch that stamps last_time but forgets to record
\* last_action
Decide8_RespawnNotRecorded(m, now, st, th) ==
    IF now - st.last_time < DECISION_HOLD THEN
        [ret |-> st.last_action, last_action |-> st.last_action, last_time |-> st.last_time]
    ELSE IF GT(m.vol, th.clap) THEN
        [ret |-> "RESPAWN", last_action |-> st.last_action, last_time |-> now]
    ELSE IF LT(m.vol, th.silence) THEN
        [ret |-> "IDLE", last_action |-> "IDLE", last_time |-> st.last_time]
    ELSE
        LET act == IF GT(m.pitch, th.pitch)
                   THEN (IF RatioGT(m.mid, m.low, th.ratio_oe) THEN "LEFT" ELSE "RIGHT")
                   ELSE (IF RatioGT(m.high, m.mid, th.ratio_ssh) THEN "GAS" ELSE "BRAKE")
        IN  [ret |-> act, last_action |-> act, last_time |-> now]

\* decide(m) called at time now with st = [last_action, last_time]: the
\* returned action and the new last_action, last_time
Decide8(m, now, st, th) ==
    IF now - st.last_time < DECISION_HOLD THEN
        [ret |-> st.last_action, last_action |-> st.last_action, last_time |-> st.last_time]
    ELSE IF GT(m.vol, th.clap) THEN
        [ret |-> "RESPAWN", last_action |-> "RESPAWN", last_time |-> now]
    ELSE IF LT(m.vol, th.silence) THEN
        [ret |-> "IDLE", last_action |-> "IDLE", last_time |-> st.last_time]
    ELSE
        LET act == IF GT(m.pitch, th.pitch)
                   THEN (IF RatioGT(m.mid, m.low, th.ratio_oe) THEN "LEFT" ELSE "RIGHT")
                   ELSE (IF RatioGT(m.high, m.mid, th.ratio_ssh) THEN "GAS" ELSE "BRAKE")
        IN  [ret |-> act, last_action |-> act, last_time |-> now]

\* apply's mapping, in KeyOrder8: (up, down, left, right); mapping.get's
\* default covers every other value (None before the first decision)
Mapping8(act) ==
    CASE act = "LEFT"  -> <<TRUE, FALSE, TRUE, FALSE>>
      [] act = "RIGHT" -> <<TRUE, FALSE, FALSE, TRUE>>
      [] act = "GAS"   -> <<TRUE, FALSE, FALSE, FALSE>>
      [] act = "BRAKE" -> <<FALSE, TRUE, FALSE, FALSE>>
      [] OTHER         -> <<FALSE, FALSE, FALSE, FALSE>>

KeyIndex8(k) == CHOOSE i \in 1..4 : KeyOrder8[i] = k

\* apply(act): pressed and the sink after the key loop; RESPAWN presses
\* KEY_RESPAWN and returns before the loop
Apply8(act, pressed, lastEv) ==
    IF act = "RESPAWN" THEN
        [pressed |-> pressed, lastEv |-> [lastEv EXCEPT ![KEY_RESPAWN8] = "up"]]
    ELSE
        LET tgt == Mapping8(act) IN
        [pressed |-> [k \in Pressed8Keys |-> tgt[KeyIndex8(k)]],
         lastEv  |-> [k \in DOMAIN lastEv |->
                        IF k \notin Pressed8Keys THEN lastEv[k]
                        ELSE IF tgt[KeyIndex8(k)] /\ ~pressed[k] THEN "down"
                        ELSE IF ~tgt[KeyIndex8(k)] /\ pressed[k] THEN "up"
                        ELSE lastEv[k]]]

\* MainWindow.start: worker.start(), run opens the stream
T8Start ==
    /\ t8_pc = "idle"
    /\ t8_pc' = "loop"
    /\ UNCHANGED <<t8_running, t8_thresh, t8_last_action, t8_last_time, t8_pressed,
                   t8_now, t8_m, t8_ret, t8_nblocks, t8_lastEv, t8_loud, t8_edgePresses,
                   t8_cmd, t8_cmdTime, t8_steadyN, t8_steadyRet, t8_steadyKeys>>

\* run: p.open raises, the error is emitted and run returns
T8StartFail ==
    /\ t8_pc = "idle"
    /\ t8_pc' = "done"
    /\ UNCHANGED <<t8_running, t8_thresh, t8_last_action, t8_last_time, t8_pressed,
                   t8_now, t8_m, t8_ret, t8_nblocks, t8_lastEv, t8_loud, t8_edgePresses,
                   t8_cmd, t8_cmdTime, t8_steadyN, t8_steadyRet, t8_steadyKeys>>

\* one pass of the while loop: the smoothed vector m, dt after the last pass
T8Block(m, dt) ==
    /\ t8_pc = "loop"
    /\ t8_running
    /\ t8_nblocks < MaxBlocks8
    /\ LET now == t8_now + dt
           d   == Decide8(m, now, [last_action |-> t8_last_action,
                                   last_time |-> t8_last_time], t8_thresh)
           a   == Apply8(d.ret, t8_pressed, t8_lastEv)
           isLoud == GT(m.vol, t8_thresh.clap)
           afterHold == now - t8_last_time >= DECISION_HOLD
       IN  /\ t8_now' = now
           /\ t8_m' = m
           /\ t8_ret' = d.ret
           /\ t8_last_action' = d.last_action
           /\ t8_last_time' = d.last_time
           /\ t8_pressed' = a.pressed
           /\ t8_lastEv' = a.lastEv
           /\ t8_nblocks' = t8_nblocks + 1
           /\ t8_loud' = isLoud
           /\ t8_edgePresses' =
                LET base == IF isLoud /\ t8_loud THEN t8_edgePresses ELSE 0
                    n == IF d.ret = "RESPAWN" THEN base + 1 ELSE base
                IN  IF isLoud THEN (IF n > 2 THEN 2 ELSE n) ELSE 0
           /\ IF d.ret \notin {"RESPAWN", "None"} /\ d.ret # t8_cmd
              THEN t8_cmd' = d.ret /\ t8_cmdTime' = now
              ELSE UNCHANGED <<t8_cmd, t8_cmdTime>>
           /\ IF m = t8_m /\ t8_steadyN > 0
              THEN /\ t8_steadyN' = (IF t8_steadyN < 3 THEN t8_steadyN + 1 ELSE 3)
                   /\ UNCHANGED <<t8_steadyRet, t8_steadyKeys>>
              ELSE IF afterHold
              THEN /\ t8_steadyN' = 1
                   /\ t8_steadyRet' = d.ret
                   /\ t8_steadyKeys' = a.pressed
              ELSE /\ t8_steadyN' = 0
                   /\ t8_steadyRet' = "None"
                   /\ t8_steadyKeys' = [k \in Pressed8Keys |-> FALSE]
    /\ UNCHANGED <<t8_pc, t8_running, t8_thresh>>

\* stream.read raises: the exception leaves run, cleanup is not reached
T8ReadError ==
    /\ t8_pc = "loop"
    /\ t8_running
    /\ t8_pc' = "crashed"
    /\ UNCHANGED <<t8_running, t8_thresh, t8_last_action, t8_last_time, t8_pressed,
                   t8_now, t8_m, t8_ret, t8_nblocks, t8_lastEv, t8_loud, t8_edgePresses,
                   t8_cmd, t8_cmdTime, t8_steadyN, t8_steadyRet, t8_steadyKeys>>

\* MainWindow.closeEvent
T8Close ==
    /\ t8_running
    /\ t8_running' = FALSE
    /\ UNCHANGED <<t8_pc, t8_thresh, t8_last_action, t8_last_time, t8_pressed,
                   t8_now, t8_m, t8_ret, t8_nblocks, t8_lastEv, t8_loud, t8_edgePresses,
                   t8_cmd, t8_cmdTime, t8_steadyN, t8_steadyRet, t8_steadyKeys>>

\* the loop test fails; cleanup(): keyUp for every pressed key (pressed is
\* left as it is), the stream is closed
T8Cleanup ==
    /\ t8_pc = "loop"
    /\ ~t8_running
    /\ t8_pc' = "done"
    /\ t8_lastEv' = [k \in DOMAIN t8_lastEv |->
                        IF k \in Pressed8Keys /\ t8_pressed[k] THEN "up" ELSE t8_lastEv[k]]
    /\ UNCHANGED <<t8_running, t8_thresh, t8_last_action, t8_last_time, t8_pressed,
                   t8_now, t8_m, t8_ret, t8_nblocks, t8_loud, t8_edgePresses,
                   t8_cmd, t8_cmdTime, t8_steadyN, t8_steadyRet, t8_steadyKeys>>

StepT8 ==
    \/ T8Start
    \/ T8StartFail
    \/ \E m \in Smoothed8, dt \in Dts8 : T8Block(m, dt)
    \/ T8ReadError
    \/ T8Close
    \/ T8Cleanup

(***************************************************************************)
(* Test11.py: AudioProcessor of the ZCR / spectral-centroid variant, with  *)
(* the majority vote over the last five raw decisions.  One pass of        *)
(* process_loop and each UI call are single steps here; the workers are    *)
(* alike and keep no local state between passes, so they are counted.      *)
(***************************************************************************)

\* features (rms, zcr, centroid); zcr is a fraction, kept as a rational
Feat11(rms, zcr, cent) == [rms |-> rms, zcr |-> zcr, cent |-> cent]
Zero11 == Feat11(0, R(0), 0)
\* no pass of process_loop has read features yet
Unread11 == Feat11(-1, R(0), 0)
Ooo11  == Feat11(2000, Rat(1, 20), 800)
Sss11  == Feat11(2000, Rat(3, 10), 6000)
Clap11 == Feat11(25000, Rat(1, 5), 3000)
StreamFeats11 == {Zero11, Ooo11, Sss11, Clap11}

\* what the microphone delivers during the wizard's recordings
Bg100   == Feat11(100, Rat(1, 10), 1000)
Bg300   == Feat11(300, Rat(1, 10), 1000)
Eee11   == Feat11(2000, Rat(1, 20), 2500)
Shh11   == Feat11(2000, Rat(3, 10), 3000)

\* run_calibration_wizard's list "steps"
WizSteps11 == <<"SILENCE", "OOO", "EEE", "SHHH", "SSSS", "CLAP">>

\* the recordings run_step may make in step i: the sound the step asks for;
\* the clap window is quiet around the clap, or holds no clap
WizData11(i) ==
    CASE i = 1 -> {<<Bg100, Bg100>>, <<Bg100, Bg300>>}
      [] i = 2 -> {<<Ooo11, Ooo11>>}
      [] i = 3 -> {<<Eee11, Eee11>>}
      [] i = 4 -> {<<Shh11, Shh11>>}
      [] i = 5 -> {<<Sss11, Sss11>>}
      [] OTHER -> {<<Bg100, Clap11>>, <<Bg100, Bg100>>}

\* the keys of apply_keys' target dict, in its order
TargetOrder11 == <<"up", "down", "left", "right", "enter">>

VARIABLES
    t11_running,         \* AudioProcessor.running
    t11_calibrating,     \* AudioProcessor.calibrating
    t11_stream,          \* AudioProcessor.stream: "none", "open" or "closed"
    t11_pressed,         \* AudioProcessor.pressed
    t11_command_buffer,  \* AudioProcessor.command_buffer, oldest first
    t11_thresh,          \* the five thresholds of AudioProcessor
    t11_live,            \* number of process_loop threads that have not returned
    t11_nthreads,        \* number of process_loop threads spawned so far
    t11_final_cmd,       \* final_cmd of the latest pass of process_loop
    t11_feat,            \* (rms, zcr, centroid) of the latest pass of process_loop
    t11_wiz,             \* the wizard: 0 when none is open, else the index of the step to run (7: finish)
    t11_results,         \* the wizard's dict "results", by step index (empty once finish has returned)
    t11_line,            \* command sink: the key is down
    t11_first            \* start() has spawned a thread and no pass of process_loop has ended since

varsT11 == <<t11_running, t11_calibrating, t11_stream, t11_pressed, t11_command_buffer,
             t11_thresh, t11_live, t11_nthreads, t11_final_cmd, t11_feat, t11_wiz,
             t11_results,
             t11_line, t11_first>>

InitT11 ==
    /\ t11_running = FALSE
    /\ t11_calibrating = FALSE
    /\ t11_stream = "none"
    /\ t11_pressed = [k \in KeyNames |-> FALSE]
    /\ t11_command_buffer = <<>>
    /\ t11_thresh = [thresh_silence |-> R(300), thresh_zcr |-> Rat(3, 20),
                     thresh_vowel_cent |-> R(1500), thresh_fric_cent |-> R(4000),
                     thresh_respawn |-> R(20000)]
    /\ t11_live = 0
    /\ t11_nthreads = 0
    /\ t11_final_cmd = "None"
    /\ t11_feat = Unread11
    /\ t11_wiz = 0
    /\ t11_results = [i \in 1..Len(WizSteps11) |-> <<>>]
    /\ t11_line = [k \in KeyNames |-> FALSE]
    /\ t11_first = FALSE

decide_command(f, th) ==
    IF GT(f.rms, th.thresh_respawn) THEN "RESPAWN"
    ELSE IF LT(f.rms, th.thresh_silence) THEN "IDLE"
    ELSE IF RatLT(f.zcr, th.thresh_zcr) THEN
        (IF LT(f.cent, th.thresh_vowel_cent) THEN "LEFT" ELSE "RIGHT")
    ELSE
        (IF LT(f.cent, th.thresh_fric_cent) THEN "BRAKE" ELSE "GAS")

\* deque(maxlen=5).append
BufAppend11(buf, c) ==
    IF Len(buf) < 5 THEN Append(buf, c) ELSE Append(Tail(buf), c)

Count11(buf, c) == Cardinality({i \in 1..Len(buf) : buf[i] = c})
FirstIndex11(buf, c) == CHOOSE i \in 1..Len(buf) :
                            buf[i] = c /\ \A j \in 1..(i - 1) : buf[j] # c

\* Counter(buf).most_common(1)[0][0]: the label with the highest count; among
\* labels with the same count, the one the Counter met first (max() keeps the
\* first maximum in the Counter's insertion order)
MostCommon11(buf) ==
    CHOOSE c \in {buf[i] : i \in 1..Len(buf)} :
        \A e \in {buf[i] : i \in 1..Len(buf)} :
            \/ Count11(buf, c) > Count11(buf, e)
            \/ (Count11(buf, c) = Count11(buf, e)
                /\ FirstIndex11(buf, c) <= FirstIndex11(buf, e))

\* apply_keys' target for a command
Target11(command) ==
    [k \in KeyNames |->
        \/ (command = "GAS" /\ k = "up")
        \/ (command = "BRAKE" /\ k = "down")
        \/ (command = "LEFT" /\ k = "left")
        \/ (command = "RIGHT" /\ k = "right")
        \/ (command = "RESPAWN" /\ k = "enter")]

\* apply_keys(command): pressed and the sink afterwards
ApplyKeys11(command, pressed, line) ==
    LET target == Target11(command) IN
    [pressed |-> target,
     line    |-> [k \in KeyNames |->
                    IF target[k] /\ ~pressed[k] THEN TRUE
                    ELSE IF ~target[k] /\ pressed[k] THEN FALSE
                    ELSE line[k]]]

\* toggle_start with the engine stopped: start() opens the stream and spawns
\* a process_loop thread.  The user leaves the main window's button alone
\* while the wizard's window is open.
T11Start ==
    /\ t11_wiz = 0
    /\ ~t11_running
    /\ t11_nthreads < MaxThreads
    /\ t11_stream' = "open"
    /\ t11_running' = TRUE
    /\ t11_live' = t11_live + 1
    /\ t11_nthreads' = t11_nthreads + 1
    /\ UNCHANGED <<t11_calibrating, t11_pressed, t11_command_buffer, t11_thresh, t11_wiz, t11_results,
                   t11_final_cmd, t11_feat, t11_line>>
    /\ t11_first' = TRUE

\* one pass of process_loop with calibrating False
T11Block ==
    /\ t11_live > 0
    /\ t11_running
    /\ ~t11_calibrating
    /\ \E f \in StreamFeats11 :
         LET feat == IF t11_stream = "open" THEN f ELSE Zero11
             raw_cmd == decide_command(feat, t11_thresh)
             buf == BufAppend11(t11_command_buffer, raw_cmd)
             final_cmd == IF Len(buf) < 3 THEN raw_cmd ELSE MostCommon11(buf)
             a == ApplyKeys11(final_cmd, t11_pressed, t11_line)
         IN  /\ t11_command_buffer' = buf
             /\ t11_final_cmd' = final_cmd
             /\ t11_feat' = feat
             /\ t11_pressed' = a.pressed
             /\ t11_line' = a.line
    /\ UNCHANGED <<t11_running, t11_calibrating, t11_stream, t11_thresh, t11_wiz, t11_results, t11_live,
                   t11_nthreads>>
    /\ t11_first' = FALSE

\* toggle_start with the engine running, or on_close: stop()
T11Stop ==
    /\ t11_wiz = 0
    /\ t11_running
    /\ t11_running' = FALSE
    /\ LET a == ApplyKeys11("IDLE", t11_pressed, t11_line) IN
          /\ t11_pressed' = a.pressed
          /\ t11_line' = a.line
    /\ t11_stream' = IF t11_stream = "open" THEN "closed" ELSE t11_stream
    /\ UNCHANGED <<t11_calibrating, t11_command_buffer, t11_thresh, t11_wiz, t11_results, t11_live,
                   t11_nthreads, t11_final_cmd, t11_feat>>
    /\ UNCHANGED t11_first

\* a process_loop thread finds running False and returns
T11Exit ==
    /\ t11_live > 0
    /\ ~t11_running
    /\ t11_live' = t11_live - 1
    /\ UNCHANGED <<t11_running, t11_calibrating, t11_stream, t11_pressed,
                   t11_command_buffer, t11_thresh, t11_wiz, t11_results, t11_nthreads, t11_final_cmd, t11_feat,
                   t11_line>>
    /\ UNCHANGED t11_first

\* x[0], x[1], x[2] of a recorded tuple
Rms11(x)  == R(x.rms)
Zcr11(x)  == x.zcr
Cent11(x) == R(x.cent)

\* finish(): the five thresholds computed from results
Finish11(res) ==
    [thresh_silence    |-> RatMax(RatMul(RatMaxSeq(SeqMap(Rms11, res[1])), R(2)), R(300)),
     thresh_respawn    |-> RatMul(RatMaxSeq(SeqMap(Rms11, res[6])), Rat(4, 5)),
     thresh_zcr        |-> RatHalf(RatAdd(Mean(SeqMap(Zcr11, res[2] \o res[3])),
                                          Mean(SeqMap(Zcr11, res[4] \o res[5])))),
     thresh_vowel_cent |-> RatHalf(RatAdd(Mean(SeqMap(Cent11, res[2])),
                                          Mean(SeqMap(Cent11, res[3])))),
     thresh_fric_cent  |-> RatHalf(RatAdd(Mean(SeqMap(Cent11, res[4])),
                                          Mean(SeqMap(Cent11, res[5]))))]

\* run_calibration_wizard: start() (a no-op when the engine runs), then
\* calibrating = True; run_step(0) is scheduled
T11WizardStart ==
    /\ t11_wiz = 0
    /\ t11_running \/ t11_nthreads < MaxThreads
    /\ t11_stream' = IF t11_running THEN t11_stream ELSE "open"
    /\ t11_running' = TRUE
    /\ t11_live' = IF t11_running THEN t11_live ELSE t11_live + 1
    /\ t11_nthreads' = IF t11_running THEN t11_nthreads ELSE t11_nthreads + 1
    /\ t11_calibrating' = TRUE
    /\ t11_wiz' = 1
    /\ t11_results' = [i \in 1..Len(WizSteps11) |-> <<>>]
    /\ UNCHANGED <<t11_pressed, t11_command_buffer, t11_thresh, t11_final_cmd, t11_feat, t11_line>>
    /\ t11_first' = (~t11_running \/ t11_first)

\* run_step(i) for i < len(steps): record two seconds of get_features()
T11WizardStep(data) ==
    /\ t11_wiz \in 1..Len(WizSteps11)
    /\ t11_results' = [t11_results EXCEPT ![t11_wiz] = data]
    /\ t11_wiz' = t11_wiz + 1
    /\ UNCHANGED <<t11_running, t11_calibrating, t11_stream, t11_pressed,
                   t11_command_buffer, t11_thresh, t11_live, t11_nthreads,
                   t11_final_cmd, t11_feat, t11_line>>
    /\ UNCHANGED t11_first

\* run_step(len(steps)): finish() writes the thresholds, clears calibrating
\* and calls stop()
T11WizardFinish ==
    /\ t11_wiz = Len(WizSteps11) + 1
    /\ t11_thresh' = Finish11(t11_results)
    /\ t11_calibrating' = FALSE
    /\ t11_running' = FALSE
    /\ LET a == ApplyKeys11("IDLE", t11_pressed, t11_line) IN
          /\ t11_pressed' = a.pressed
          /\ t11_line' = a.line
    /\ t11_stream' = IF t11_stream = "open" THEN "closed" ELSE t11_stream
    /\ t11_wiz' = 0
    /\ t11_results' = [i \in 1..Len(WizSteps11) |-> <<>>]
    /\ UNCHANGED <<t11_command_buffer, t11_live, t11_nthreads, t11_final_cmd, t11_feat>>
    /\ UNCHANGED t11_first

StepT11 ==
    \/ T11Start
    \/ T11Block
    \/ T11Stop
    \/ T11Exit
    \/ T11WizardStart
    \/ \E data \in WizData11(t11_wiz) : T11WizardStep(data)
    \/ T11WizardFinish

(***************************************************************************)
(* Test7.py: AudioWorker (a QThread) and MainWindow (the Qt UI thread).    *)
(* One iteration of the worker's loop and one UI handler are each taken as *)
(* one step, except the iteration that completes a calibration step: the   *)
(* UI thread may write calib_buffer between handle_calibration's length    *)
(* test and process_calibration_stats' reads of the buffer, so that        *)
(* iteration is two steps.  calibration_finished is a queued signal: the   *)
(* worker appends the step's statistics to the UI's event queue, the UI    *)
(* handles them in a later step.                                           *)
(***************************************************************************)

\* bound: chunks measured per calibration step (the code uses 50)
calib_target_samples == 2

\* bound: calibration_finished events that may wait in the UI's event queue
MaxQueue7 == 1

\* bound: number of times the user presses R (reset_program) in one run
MaxResets7 == 1

KEY_ACCEL7   == "w"
KEY_BRAKE7   == "s"
KEY_LEFT7    == "a"
KEY_RIGHT7   == "d"
KEY_RESPAWN7 == "q"
Pressed7Keys == {KEY_ACCEL7, KEY_BRAKE7, KEY_LEFT7, KEY_RIGHT7, KEY_RESPAWN7}

\* number of entries of next_calib_stage's list "stages"
NumStages7 == 6

\* voiced blocks that differ only in the mid band: mid/(low+1) is 1, 2 and 10
Vowel1  == Spectrum(2000, 2000, 99, 100, 0)
Vowel2  == Spectrum(2000, 2000, 99, 200, 0)
Vowel10 == Spectrum(2000, 2000, 99, 1000, 0)

\* an unvoiced block with high/(mid+1) = 5.2
Hiss == Spectrum(2000, 100, 9, 9, 52)

\* what the microphone delivers while calibration step "step" is recording
\* and n blocks are in the buffer: the sound the stage asks for.  In the OOO
\* step the user may start a moment late, so that the first block is quiet;
\* in the clap step the clap is in the first block or comes too late, and
\* the other blocks are quiet
CalibBlocks7(step, n) ==
    CASE step = 0 -> {Quiet}
      [] step = 1 -> IF n = 0 THEN {VoicedO, Quiet} ELSE {VoicedO}
      [] step = 2 -> {VoicedE}
      [] step = 3 -> {Shh}
      [] step = 4 -> {Sss}
      [] OTHER    -> IF n = 0 THEN {Clap, Quiet} ELSE {Quiet}

\* what the microphone delivers while the game is played
GameBlocks7 == {Quiet, VoicedO, Vowel1, Vowel2, Vowel10, Shh, Sss, Hiss, Clap}

VARIABLES
    t7_pc,            \* the worker thread: "idle" (not running), "loop", "stats" (in
                      \* handle_calibration's else branch, before the statistics), "done"
    t7_terminated,    \* self.p.terminate() has been called
    t7_running,       \* worker.running
    t7_paused,        \* worker.paused
    t7_mode,          \* worker.mode
    t7_calib_step,    \* worker.calib_step
    t7_calib_buffer,  \* worker.calib_buffer
    t7_thresh,        \* worker.thresh
    t7_pressed,       \* worker.pressed
    t7_stack,         \* MainWindow.stack's current index: 0 device, 1 calibration, 2 game
    t7_btn_enabled,   \* btn_calib_action.isEnabled()
    t7_calib_stage,   \* MainWindow.calib_stage
    t7_calib_o,       \* MainWindow.calib_o_pitch, calib_o_ratio
    t7_calib_sh_ratio,\* MainWindow.calib_sh_ratio
    t7_queue,         \* calibration_finished events not yet handled by the UI
    t7_closed,        \* the window has been closed
    t7_resets,        \* number of reset_program calls so far
    t7_progress,      \* the values calibration_progress has emitted since start_calibration_step
    t7_faults,        \* number of block reads in a row that have failed (counted up to 3)
    t7_rec,           \* per stage, the blocks the current session's result for it was computed from
    t7_tick,          \* flips at each iteration of the worker's loop that reads a block
    t7_status,        \* status_msg of the latest iteration
    t7_m,             \* the metrics the latest iteration classified (Zero if it did not classify)
    t7_trig,          \* the latest iteration pressed the respawn key
    t7_sweep          \* the run of voiced blocks with rising mid/(low+1) that the latest blocks form

varsT7 == <<t7_pc, t7_terminated, t7_running, t7_paused, t7_mode, t7_calib_step,
            t7_calib_buffer, t7_thresh, t7_pressed, t7_stack, t7_btn_enabled,
            t7_calib_stage, t7_calib_o, t7_calib_sh_ratio, t7_queue, t7_closed,
            t7_resets, t7_faults, t7_rec, t7_tick, t7_status, t7_m, t7_trig, t7_sweep,
            t7_progress>>

\* no stage of the session has been completed
NoRec7 == [stage \in 0..(NumStages7 - 1) |-> <<>>]

NoSweep7 == [n |-> 0, first |-> Zero, prev |-> Zero, flips |-> 0]

InitT7 ==
    /\ t7_pc = "idle"
    /\ t7_terminated = FALSE
    /\ t7_running = TRUE
    /\ t7_paused = FALSE
    /\ t7_mode = "IDLE"
    /\ t7_calib_step = 0
    /\ t7_calib_buffer = <<>>
    /\ t7_thresh = [silence |-> R(500), respawn |-> R(15000), pitch |-> R(0),
                    ratio_oe |-> Rat(3, 2), ratio_ssh |-> R(3)]
    /\ t7_pressed = [k \in Pressed7Keys |-> FALSE]
    /\ t7_stack = 0
    /\ t7_btn_enabled = FALSE
    /\ t7_calib_stage = 0
    /\ t7_calib_o = [pitch |-> R(0), ratio |-> R(0)]
    /\ t7_calib_sh_ratio = R(0)
    /\ t7_queue = <<>>
    /\ t7_closed = FALSE
    /\ t7_resets = 0
    /\ t7_rec = NoRec7
    /\ t7_faults = 0
    /\ t7_tick = FALSE
    /\ t7_status = "IDLE"
    /\ t7_m = Zero
    /\ t7_trig = FALSE
    /\ t7_sweep = NoSweep7
    /\ t7_progress = <<>>

\* x['mid'] / (x['low'] + 1)  and  x['high'] / (x['mid'] + 1)
ROe7(x)  == Rat(x.mid, x.low + 1)
RSsh7(x) == Rat(x.high, x.mid + 1)
Vol7(x)   == R(x.vol)
Pitch7(x) == R(x.pitch)

\* process_calibration_stats with the mean volume in place of the peak
process_calibration_stats_PeakIsMean(step, buf) ==
    [step    |-> step,
     samples |-> buf,
     vol     |-> Mean(SeqMap(Vol7, buf)),
     max_vol |-> Mean(SeqMap(Vol7, buf)),
     pitch   |-> Mean(SeqMap(Pitch7, buf)),
     r_oe    |-> Median(SeqMap(ROe7, buf)),
     r_ssh   |-> Median(SeqMap(RSsh7, buf))]

\* the dictionary process_calibration_stats returns for a non-empty buffer;
\* "samples" is not in the code's dictionary: it remembers the buffer the
\* statistics were computed from
process_calibration_stats(step, buf) ==
    [step    |-> step,
     samples |-> buf,
     vol     |-> Mean(SeqMap(Vol7, buf)),
     max_vol |-> RatMaxSeq(SeqMap(Vol7, buf)),
     pitch   |-> Mean(SeqMap(Pitch7, buf)),
     r_oe    |-> Median(SeqMap(ROe7, buf)),
     r_ssh   |-> Median(SeqMap(RSsh7, buf))]

\* apply_keys(up, down, left, right): afterwards pressed[k] is the wanted
\* state of each of the four keys; the respawn key is not in its list
apply_keys7(pressed, up, down, left, right) ==
    [pressed EXCEPT ![KEY_ACCEL7] = up, ![KEY_BRAKE7] = down,
                    ![KEY_LEFT7] = left, ![KEY_RIGHT7] = right]

\* release_all_keys: every key of pressed ends up released
release_all_keys7 == [k \in Pressed7Keys |-> FALSE]

\* the noise test with the calibrated threshold only
GasTest7_NoCeiling(m, th) == RatioGT(m.high, m.mid, th.ratio_ssh)

\* handle_game_logic's noise test: "ratio > self.thresh['ratio_ssh'] or ratio > 5.0"
GasTest7(m, th) ==
    RatioGT(m.high, m.mid, th.ratio_ssh) \/ RatioGT(m.high, m.mid, R(5))

\* the respawn branch with the direction keys released as for a silent block
RespawnBranch7_ReleasesKeys(pressed) ==
    [status |-> "RESPAWN", trig |-> TRUE,
     pressed |-> [k \in Pressed7Keys |-> FALSE]]

\* handle_game_logic's respawn branch: "pydirectinput.press(KEY_RESPAWN);
\* return": apply_keys is not called and pressed stays as it was
RespawnBranch7(pressed) ==
    [status |-> "RESPAWN", trig |-> TRUE, pressed |-> pressed]

\* handle_game_logic with the vowel test true only inside a band
handle_game_logic_VowelBand(m, pressed, th) ==
    IF GT(m.vol, th.respawn) THEN
        RespawnBranch7(pressed)
    ELSE IF GT(m.vol, th.silence) THEN
        IF GT(m.pitch, th.pitch) THEN
            IF RatioGT(m.mid, m.low, th.ratio_oe) /\ ~RatioGT(m.mid, m.low, R(5)) THEN
                [status |-> "LEFT", trig |-> FALSE,
                 pressed |-> apply_keys7(pressed, TRUE, FALSE, TRUE, FALSE)]
            ELSE
                [status |-> "RIGHT", trig |-> FALSE,
                 pressed |-> apply_keys7(pressed, TRUE, FALSE, FALSE, TRUE)]
        ELSE
            IF GasTest7(m, th) THEN
                [status |-> "GAS", trig |-> FALSE,
                 pressed |-> apply_keys7(pressed, TRUE, FALSE, FALSE, FALSE)]
            ELSE
                [status |-> "BRAKE", trig |-> FALSE,
                 pressed |-> apply_keys7(pressed, FALSE, TRUE, FALSE, FALSE)]
    ELSE
        [status |-> "...", trig |-> FALSE,
         pressed |-> apply_keys7(pressed, FALSE, FALSE, FALSE, FALSE)]

\* handle_game_logic(m): the status it returns, whether it pressed the respawn
\* key, and pressed afterwards
handle_game_logic(m, pressed, th) ==
    IF GT(m.vol, th.respawn) THEN
        RespawnBranch7(pressed)
    ELSE IF GT(m.vol, th.silence) THEN
        IF GT(m.pitch, th.pitch) THEN
            IF RatioGT(m.mid, m.low, th.ratio_oe) THEN
                [status |-> "LEFT", trig |-> FALSE,
                 pressed |-> apply_keys7(pressed, TRUE, FALSE, TRUE, FALSE)]
            ELSE
                [status |-> "RIGHT", trig |-> FALSE,
                 pressed |-> apply_keys7(pressed, TRUE, FALSE, FALSE, TRUE)]
        ELSE
            IF GasTest7(m, th) THEN
                [status |-> "GAS", trig |-> FALSE,
                 pressed |-> apply_keys7(pressed, TRUE, FALSE, FALSE, FALSE)]
            ELSE
                [status |-> "BRAKE", trig |-> FALSE,
                 pressed |-> apply_keys7(pressed, FALSE, TRUE, FALSE, FALSE)]
    ELSE
        [status |-> "...", trig |-> FALSE,
         pressed |-> apply_keys7(pressed, FALSE, FALSE, FALSE, FALSE)]

\* m is in the voiced branch: silence < vol <= respawn and pitch above the gate
Voiced7(m, th) ==
    /\ GT(m.vol, th.silence)
    /\ ~GT(m.vol, th.respawn)
    /\ GT(m.pitch, th.pitch)

\* m continues the sweep that ended with prev: the same volume, pitch band
\* and high band, and mid/(low+1) not smaller
Continues7(prev, m) ==
    /\ m.vol = prev.vol
    /\ m.pitch = prev.pitch
    /\ m.high = prev.high
    /\ ~RatLT(ROe7(m), ROe7(prev))

\* the sweep after a block m classified as status (the previous block was
\* classified as prevStatus)
Sweep7(sw, m, status, prevStatus, th) ==
    IF ~Voiced7(m, th) THEN NoSweep7
    ELSE IF sw.n > 0 /\ Continues7(sw.prev, m) THEN
        [n     |-> IF sw.n < 3 THEN sw.n + 1 ELSE 3,
         first |-> sw.first,
         prev  |-> m,
         flips |-> IF status # prevStatus /\ sw.flips < 2 THEN sw.flips + 1 ELSE sw.flips]
    ELSE [n |-> 1, first |-> m, prev |-> m, flips |-> 0]
\* the progress with the whole count of samples in place of the percentage
Progress7_SampleCount(n) == n * 100

\* handle_calibration: "int((len(self.calib_buffer) / self.calib_target_samples)
\* * 100)".  The float quotient times 100 is exact when the percentage is a
\* whole number at the targets checked here, and truncation is the floor
\* otherwise.
Progress7(n) == (n * 100) \div calib_target_samples

\* run(): one iteration of the loop in mode CALIBRATING (handle_calibration)
T7CalibBlock(m) ==
    /\ t7_pc = "loop"
    /\ t7_running
    /\ ~t7_paused
    /\ t7_mode = "CALIBRATING"
    /\ IF Len(t7_calib_buffer) < calib_target_samples THEN
           /\ t7_calib_buffer' = Append(t7_calib_buffer, m)
           /\ t7_progress' = Append(t7_progress, Progress7(Len(t7_calib_buffer) + 1))
           /\ UNCHANGED <<t7_mode, t7_queue>>
           /\ UNCHANGED t7_pc
       ELSE
           /\ t7_mode' = "IDLE"
           /\ t7_pc' = "stats"
           /\ UNCHANGED <<t7_calib_buffer, t7_queue, t7_progress>>
    /\ t7_tick' = ~t7_tick
    /\ t7_faults' = 0
    /\ t7_status' = "CALIBRATING"
    /\ t7_m' = Zero
    /\ t7_trig' = FALSE
    /\ t7_sweep' = NoSweep7
    /\ UNCHANGED <<t7_terminated, t7_running, t7_paused, t7_calib_step,
                   t7_thresh, t7_pressed, t7_stack, t7_btn_enabled, t7_calib_stage,
                   t7_calib_o, t7_calib_sh_ratio, t7_closed, t7_rec, t7_resets>>

\* the GAME iteration with a silence threshold that follows the block's volume
T7GameBlock_AdaptsSilence(m) ==
    /\ t7_pc = "loop"
    /\ t7_running
    /\ ~t7_paused
    /\ t7_mode = "GAME"
    /\ LET r == handle_game_logic(m, t7_pressed, t7_thresh) IN
         /\ t7_pressed' = r.pressed
         /\ t7_status' = r.status
         /\ t7_trig' = r.trig
         /\ t7_sweep' = Sweep7(t7_sweep, m, r.status, t7_status, t7_thresh)
    /\ t7_m' = m
    /\ t7_thresh' = [t7_thresh EXCEPT !.silence = RatMax(R(m.vol), R(500))]
    /\ t7_tick' = ~t7_tick
    /\ t7_faults' = 0
    /\ UNCHANGED <<t7_pc, t7_terminated, t7_running, t7_paused, t7_mode, t7_calib_step,
                   t7_calib_buffer, t7_stack, t7_btn_enabled, t7_calib_stage,
                   t7_calib_o, t7_calib_sh_ratio, t7_queue, t7_closed, t7_rec, t7_resets>>
    /\ UNCHANGED t7_progress

\* run(): one iteration of the loop in mode GAME (handle_game_logic)
T7GameBlock(m) ==
    /\ t7_pc = "loop"
    /\ t7_running
    /\ ~t7_paused
    /\ t7_mode = "GAME"
    /\ LET r == handle_game_logic(m, t7_pressed, t7_thresh) IN
         /\ t7_pressed' = r.pressed
         /\ t7_status' = r.status
         /\ t7_trig' = r.trig
         /\ t7_sweep' = Sweep7(t7_sweep, m, r.status, t7_status, t7_thresh)
    /\ t7_m' = m
    /\ t7_tick' = ~t7_tick
    /\ t7_faults' = 0
    /\ UNCHANGED <<t7_pc, t7_terminated, t7_running, t7_paused, t7_mode, t7_calib_step,
                   t7_calib_buffer, t7_thresh, t7_stack, t7_btn_enabled, t7_calib_stage,
                   t7_calib_o, t7_calib_sh_ratio, t7_queue, t7_closed, t7_rec, t7_resets>>
    /\ UNCHANGED t7_progress

\* run(): one iteration of the loop in mode IDLE
T7IdleBlock ==
    /\ t7_pc = "loop"
    /\ t7_running
    /\ ~t7_paused
    /\ t7_mode = "IDLE"
    /\ t7_tick' = ~t7_tick
    /\ t7_faults' = 0
    /\ t7_status' = "IDLE"
    /\ t7_m' = Zero
    /\ t7_trig' = FALSE
    /\ t7_sweep' = NoSweep7
    /\ UNCHANGED <<t7_pc, t7_terminated, t7_running, t7_paused, t7_mode, t7_calib_step,
                   t7_calib_buffer, t7_thresh, t7_pressed, t7_stack, t7_btn_enabled,
                   t7_calib_stage, t7_calib_o, t7_calib_sh_ratio, t7_queue, t7_closed, t7_rec, t7_resets>>
    /\ UNCHANGED t7_progress

\* run() is killed inside its loop: Escape has closed the only window, so
\* app.exec() returns and sys.exit ends the process; nothing waits for the
\* worker thread
T7ProcessExit ==
    /\ t7_closed
    /\ t7_pc \in {"loop", "stats"}
    /\ t7_pc' = "killed"
    /\ UNCHANGED <<t7_terminated, t7_running, t7_paused, t7_mode, t7_calib_step,
                   t7_calib_buffer, t7_thresh, t7_pressed, t7_stack, t7_btn_enabled,
                   t7_calib_stage, t7_calib_o, t7_calib_sh_ratio, t7_queue, t7_closed,
                   t7_resets, t7_faults, t7_rec, t7_tick, t7_status, t7_m, t7_trig,
                   t7_sweep, t7_progress>>

\* stop_stream(): release_all_keys, close the stream, p.terminate()
T7StopStream ==
    /\ t7_pressed' = release_all_keys7
    /\ t7_terminated' = TRUE
    /\ t7_pc' = "done"
    /\ UNCHANGED <<t7_running, t7_paused, t7_mode, t7_calib_step, t7_calib_buffer,
                   t7_thresh, t7_stack, t7_btn_enabled, t7_calib_stage, t7_calib_o,
                   t7_calib_sh_ratio, t7_queue, t7_closed, t7_rec, t7_resets, t7_tick, t7_status, t7_m,
                   t7_trig, t7_sweep>>
    /\ UNCHANGED t7_progress

\* handle_calibration's else branch after "self.mode = 'IDLE'":
\* calibration_finished.emit(process_calibration_stats()).  On an empty
\* buffer np.mean gives nan and np.max raises ValueError, which run() catches:
\* the loop breaks and stop_stream() runs.
T7CalibStats ==
    /\ t7_pc = "stats"
    /\ IF t7_calib_buffer = <<>> THEN
           /\ UNCHANGED t7_faults
           /\ T7StopStream
       ELSE
           /\ t7_queue' = Append(t7_queue,
                              process_calibration_stats(t7_calib_step, t7_calib_buffer))
           /\ t7_pc' = "loop"
           /\ UNCHANGED <<t7_terminated, t7_running, t7_paused, t7_mode, t7_calib_step,
                          t7_calib_buffer, t7_thresh, t7_pressed, t7_stack, t7_btn_enabled,
                          t7_calib_stage, t7_calib_o, t7_calib_sh_ratio, t7_closed,
                          t7_resets, t7_faults, t7_rec, t7_tick, t7_status, t7_m, t7_trig,
                          t7_sweep>>
    /\ UNCHANGED t7_progress

\* run(): stream.read (or the processing) raises; the loop breaks
T7ReadError ==
    /\ t7_pc = "loop"
    /\ t7_running
    /\ ~t7_paused
    /\ t7_faults' = IF t7_faults < 3 THEN t7_faults + 1 ELSE 3
    /\ T7StopStream

\* run(): "while self.running" fails
T7Exit ==
    /\ t7_pc = "loop"
    /\ ~t7_running
    /\ UNCHANGED t7_faults
    /\ T7StopStream

\* next_calib_stage(): enable the capture button, or finish_calibration()
next_calib_stage(stage) ==
    IF stage < NumStages7 THEN
        /\ t7_btn_enabled' = TRUE
        /\ UNCHANGED <<t7_mode, t7_stack>>
    ELSE
        /\ t7_mode' = "GAME"
        /\ t7_stack' = 2
        /\ UNCHANGED t7_btn_enabled

\* start_calibration_sequence(): the device screen's button.  The worker is
\* started unless it is running; run() returns at once when the stream cannot
\* be opened (always so after p.terminate()).
T7StartCalibrationSequence(opens) ==
    /\ ~t7_closed
    /\ t7_stack = 0
    /\ t7_pc' = IF t7_pc \in {"idle", "done"} /\ opens /\ ~t7_terminated THEN "loop"
                ELSE t7_pc
    /\ t7_calib_stage' = 0
    /\ t7_rec' = NoRec7
    /\ t7_btn_enabled' = TRUE
    /\ t7_stack' = 1
    /\ UNCHANGED <<t7_terminated, t7_running, t7_paused, t7_mode, t7_calib_step,
                   t7_calib_buffer, t7_thresh, t7_pressed, t7_calib_o,
                   t7_calib_sh_ratio, t7_queue, t7_closed, t7_faults, t7_resets, t7_tick, t7_status, t7_m,
                   t7_trig, t7_sweep>>
    /\ UNCHANGED t7_progress

\* trigger_calib_step(): the capture button; worker.start_calibration_step
T7TriggerCalibStep ==
    /\ ~t7_closed
    /\ t7_stack = 1
    /\ t7_btn_enabled
    /\ Len(t7_queue) < MaxQueue7
    /\ t7_btn_enabled' = FALSE
    /\ t7_calib_step' = t7_calib_stage
    /\ t7_calib_buffer' = <<>>
    /\ t7_progress' = <<>>
    /\ t7_mode' = "CALIBRATING"
    /\ UNCHANGED <<t7_pc, t7_terminated, t7_running, t7_paused, t7_thresh, t7_pressed,
                   t7_stack, t7_calib_stage, t7_calib_o, t7_calib_sh_ratio, t7_queue,
                   t7_closed, t7_rec, t7_faults, t7_resets, t7_tick, t7_status, t7_m, t7_trig, t7_sweep>>

\* on_calib_step_complete with the vowel boundary at the sum of the two ratios
StageThresh7_VowelSum(stage, data, th, o, sh) ==
    CASE stage = 0 -> [th EXCEPT !.silence = RatMax(RatMul(data.vol, R(2)), R(500))]
      [] stage = 2 -> [th EXCEPT !.pitch = RatMul(RatMin(o.pitch, data.pitch), Rat(2, 5)),
                                 !.ratio_oe = RatAdd(o.ratio, data.r_oe)]
      [] stage = 4 -> [th EXCEPT !.ratio_ssh = RatHalf(RatAdd(sh, data.r_ssh))]
      [] stage = 5 -> [th EXCEPT !.respawn = RatMul(data.max_vol, Rat(4, 5))]
      [] OTHER     -> th

\* on_calib_step_complete(data): the thresholds after the stage's branch
StageThresh7(stage, data, th, o, sh) ==
    CASE stage = 0 -> [th EXCEPT !.silence = RatMax(RatMul(data.vol, R(2)), R(500))]
      [] stage = 2 -> [th EXCEPT !.pitch = RatMul(RatMin(o.pitch, data.pitch), Rat(2, 5)),
                                 !.ratio_oe = RatHalf(RatAdd(o.ratio, data.r_oe))]
      [] stage = 4 -> [th EXCEPT !.ratio_ssh = RatHalf(RatAdd(sh, data.r_ssh))]
      [] stage = 5 -> [th EXCEPT !.respawn = RatMul(data.max_vol, Rat(4, 5))]
      [] OTHER     -> th

\* on_calib_step_complete(data): the UI handles the oldest queued
\* calibration_finished event
T7OnCalibStepComplete ==
    /\ ~t7_closed
    /\ t7_queue # <<>>
    /\ LET data == Head(t7_queue) IN
         /\ t7_thresh' = StageThresh7(t7_calib_stage, data, t7_thresh,
                                      t7_calib_o, t7_calib_sh_ratio)
         /\ t7_calib_o' = IF t7_calib_stage = 1
                          THEN [pitch |-> data.pitch, ratio |-> data.r_oe]
                          ELSE t7_calib_o
         /\ t7_calib_sh_ratio' = IF t7_calib_stage = 3 THEN data.r_ssh
                                 ELSE t7_calib_sh_ratio
    /\ t7_queue' = Tail(t7_queue)
    /\ t7_rec' = IF t7_calib_stage < NumStages7
                 THEN [t7_rec EXCEPT ![t7_calib_stage] = Head(t7_queue).samples]
                 ELSE t7_rec
    /\ t7_calib_stage' = t7_calib_stage + 1
    /\ next_calib_stage(t7_calib_stage + 1)
    /\ t7_sweep' = NoSweep7
    /\ UNCHANGED <<t7_pc, t7_terminated, t7_running, t7_paused, t7_calib_step,
                   t7_calib_buffer, t7_pressed, t7_closed, t7_faults, t7_resets, t7_tick, t7_status, t7_m,
                   t7_trig>>
    /\ UNCHANGED t7_progress

\* keyPressEvent(R): reset_program()
T7ResetProgram ==
    /\ ~t7_closed
    /\ t7_resets < MaxResets7
    /\ t7_resets' = t7_resets + 1
    /\ t7_mode' = "IDLE"
    /\ t7_pressed' = release_all_keys7
    /\ t7_stack' = 0
    /\ UNCHANGED <<t7_pc, t7_terminated, t7_running, t7_paused, t7_calib_step,
                   t7_calib_buffer, t7_thresh, t7_btn_enabled, t7_calib_stage,
                   t7_calib_o, t7_calib_sh_ratio, t7_queue, t7_closed, t7_rec, t7_faults, t7_tick,
                   t7_status, t7_m, t7_trig, t7_sweep>>
    /\ UNCHANGED t7_progress

\* keyPressEvent(Space)
T7TogglePause ==
    /\ ~t7_closed
    /\ t7_paused' = ~t7_paused
    /\ UNCHANGED <<t7_pc, t7_terminated, t7_running, t7_mode, t7_calib_step,
                   t7_calib_buffer, t7_thresh, t7_pressed, t7_stack, t7_btn_enabled,
                   t7_calib_stage, t7_calib_o, t7_calib_sh_ratio, t7_queue, t7_closed, t7_rec, t7_faults, t7_resets,
                   t7_tick, t7_status, t7_m, t7_trig, t7_sweep>>
    /\ UNCHANGED t7_progress

\* keyPressEvent(Escape): running = False, close()
T7Escape ==
    /\ ~t7_closed
    /\ t7_running' = FALSE
    /\ t7_closed' = TRUE
    /\ UNCHANGED <<t7_resets, t7_faults, t7_rec>>
    /\ UNCHANGED <<t7_pc, t7_terminated, t7_paused, t7_mode, t7_calib_step,
                   t7_calib_buffer, t7_thresh, t7_pressed, t7_stack, t7_btn_enabled,
                   t7_calib_stage, t7_calib_o, t7_calib_sh_ratio, t7_queue, t7_tick,
                   t7_status, t7_m, t7_trig, t7_sweep>>
    /\ UNCHANGED t7_progress

StepT7 ==
    \/ \E m \in CalibBlocks7(t7_calib_step, Len(t7_calib_buffer)) : T7CalibBlock(m)
    \/ \E m \in GameBlocks7 : T7GameBlock(m)
    \/ T7IdleBlock
    \/ T7CalibStats
    \/ T7ReadError
    \/ T7Exit
    \/ \E opens \in BOOLEAN : T7StartCalibrationSequence(opens)
    \/ T7TriggerCalibStep
    \/ T7OnCalibStepComplete
    \/ T7ResetProgram
    \/ T7TogglePause
    \/ T7Escape
    \/ T7ProcessExit

(***************************************************************************)
(* The high-pass filter of the capture loops: Test8.py and Test7.py call   *)
(* signal.sosfilt(sos, block) on each block, audio_monitor_2.py calls      *)
(* lfilter(b, a, block, zi=self.zi) and keeps the returned state.  Both    *)
(* run second-order sections in transposed direct form II.  Samples and    *)
(* coefficients are small integers here (the code's are floats): each      *)
(* section has the high-pass numerator (1, -2, 1) and a recursive part.    *)
(***************************************************************************)

\* bound: samples per block (the code's CHUNK)
FiltChunk == 2

\* bound: blocks read in one run
MaxFiltBlocks == 3

FiltSamples == {-1, 0, 1}

\* a section [b0, b1, b2, a1, a2] with a0 = 1
Section(b0, b1, b2, a1, a2) == [b0 |-> b0, b1 |-> b1, b2 |-> b2, a1 |-> a1, a2 |-> a2]

\* the cascade butter(..., 'hp', output='sos') returns, cut to two sections
HpSos == <<Section(1, -2, 1, -1, 0), Section(1, -2, 1, 0, 1)>>

\* the state sosfilt starts every call from when no zi is passed
ZeroState == <<0, 0>>

RECURSIVE SectionRun(_, _, _)
\* one section over the samples x from state z: the output and the final state
SectionRun(sec, z, x) ==
    IF x = <<>> THEN [y |-> <<>>, z |-> z]
    ELSE LET y0   == sec.b0 * Head(x) + z[1]
             z1   == sec.b1 * Head(x) - sec.a1 * y0 + z[2]
             z2   == sec.b2 * Head(x) - sec.a2 * y0
             rest == SectionRun(sec, <<z1, z2>>, Tail(x))
         IN  [y |-> <<y0>> \o rest.y, z |-> rest.z]

RECURSIVE sosfilt(_, _)
\* signal.sosfilt(sos, x): the sections in cascade, each from the zero state
sosfilt(sos, x) ==
    IF sos = <<>> THEN x
    ELSE sosfilt(Tail(sos), SectionRun(Head(sos), ZeroState, x).y)

\* audio_monitor_2's filter (b, a) as one section, and lfilter_zi(b, a): the
\* state of the section's step response at rest
MonitorBA == Section(1, -2, 1, -1, 0)
lfilter_zi == <<-1, 1>>

\* lfilter(b, a, x, zi=zi): the output and the state to keep
lfilter(ba, x, zi) == SectionRun(ba, zi, x)

VARIABLES
    flt_in,     \* every sample read so far, in order
    flt_out8,   \* Test8 / Test7: the filtered blocks so far, in order
    flt_zi,     \* audio_monitor_2: self.zi
    flt_out_m   \* audio_monitor_2: the filtered blocks so far, in order

varsFlt == <<flt_in, flt_out8, flt_zi, flt_out_m>>

InitFlt ==
    /\ flt_in = <<>>
    /\ flt_out8 = <<>>
    /\ flt_zi = lfilter_zi
    /\ flt_out_m = <<>>

\* the blocks stream.read can deliver
FiltBlocks == [1..FiltChunk -> FiltSamples]

\* one pass of the capture loop over the block x
FltBlock(x) ==
    /\ Len(flt_in) < MaxFiltBlocks * FiltChunk
    /\ flt_in' = flt_in \o x
    /\ flt_out8' = flt_out8 \o sosfilt(HpSos, x)
    /\ LET r == lfilter(MonitorBA, x, flt_zi) IN
          /\ flt_out_m' = flt_out_m \o r.y
          /\ flt_zi' = r.z

StepFlt == \E x \in FiltBlocks : FltBlock(x)

(***************************************************************************)
(* The smoother of Test8.py's capture loop: one deque(maxlen=SMOOTH_WIN)   *)
(* per feature field, every block's features appended, np.median of each   *)
(* deque handed to decide.                                                 *)
(***************************************************************************)

SMOOTH_WIN == 7

\* bound: blocks read in one run
MaxSmBlocks == 9

Fields8 == {"vol", "pitch", "low", "mid", "high"}

\* the raw feature vectors of a block: a steady tone, a louder tone, a spike
Tone8   == Spectrum(2000, 2000, 99, 1000, 0)
Louder8 == Spectrum(3000, 2000, 99, 1000, 10)
Spike8  == Spectrum(20000, 500, 999, 99, 100)
RawFeats8 == {Tone8, Louder8, Spike8}

\* deque.append that never evicts
HistAppend8_NoEvict(h, v) == Append(h, v)

\* deque(maxlen=SMOOTH_WIN).append(v): a full deque drops its oldest value
HistAppend8(h, v) ==
    IF Len(h) < SMOOTH_WIN THEN Append(h, v) ELSE Append(Tail(h), v)

\* np.median(self.hist[k])
HistMedian8(h) == Median([i \in 1..Len(h) |-> R(h[i])])

VARIABLES
    sm_hist,   \* AudioWorker.hist
    sm_out,    \* sm of the latest pass
    sm_raw     \* every raw feature vector so far, in arrival order

varsSm == <<sm_hist, sm_out, sm_raw>>

InitSm ==
    /\ sm_hist = [k \in Fields8 |-> <<>>]
    /\ sm_out = [k \in Fields8 |-> R(0)]
    /\ sm_raw = <<>>

\* one pass of run()'s loop from "for k in feats" to "sm = ..."
SmBlock(feats) ==
    /\ Len(sm_raw) < MaxSmBlocks
    /\ sm_hist' = [k \in Fields8 |-> HistAppend8(sm_hist[k], feats[k])]
    /\ sm_out' = [k \in Fields8 |-> HistMedian8(sm_hist'[k])]
    /\ sm_raw' = Append(sm_raw, feats)

StepSm == \E feats \in RawFeats8 : SmBlock(feats)

(***************************************************************************)
(* Test7.py at the level of single key events: apply_keys in the worker    *)
(* thread against reset_program / release_all_keys in the UI thread        *)
(***************************************************************************)
\* apply_keys' list "keys", and the order "for k in self.pressed" visits
KeyOrder7     == <<KEY_ACCEL7, KEY_BRAKE7, KEY_LEFT7, KEY_RIGHT7>>
ReleaseOrder7 == <<KEY_ACCEL7, KEY_BRAKE7, KEY_LEFT7, KEY_RIGHT7, KEY_RESPAWN7>>

\* the thresholds on_calib_step_complete leaves behind after the six stages
\* recorded silence, "ooo", "eee", "shh", "sss" and a clap
CalibratedThresh7 ==
    LET th0 == [silence |-> R(500), respawn |-> R(15000), pitch |-> R(0),
                ratio_oe |-> Rat(3, 2), ratio_ssh |-> R(3)]
        d0  == process_calibration_stats(0, <<Quiet>>)
        d1  == process_calibration_stats(1, <<VoicedO>>)
        d2  == process_calibration_stats(2, <<VoicedE>>)
        d3  == process_calibration_stats(3, <<Shh>>)
        d4  == process_calibration_stats(4, <<Sss>>)
        d5  == process_calibration_stats(5, <<Clap>>)
        o   == [pitch |-> d1.pitch, ratio |-> d1.r_oe]
        th1 == StageThresh7(0, d0, th0, o, d3.r_ssh)
        th2 == StageThresh7(2, d2, th1, o, d3.r_ssh)
        th4 == StageThresh7(4, d4, th2, o, d3.r_ssh)
    IN  StageThresh7(5, d5, th4, o, d3.r_ssh)

\* blocks the stream delivers while the game is played
KeyBlocks7 == {Quiet, VoicedO, VoicedE, Shh, Sss, Clap}

VARIABLES
    k7_mode,      \* worker.mode
    k7_pressed,   \* worker.pressed
    k7_line,      \* per key: the key is down at the input sink
    k7_w,         \* the worker thread: pc "loop" (between iterations) or inside
                  \* apply_keys at list position i: "test", "down", "up"
    k7_ui         \* the UI thread: pc "idle" or inside release_all_keys at
                  \* position i: "test", "up"

varsK7 == <<k7_mode, k7_pressed, k7_line, k7_w, k7_ui>>

NoKeys7 == [k \in Pressed7Keys |-> FALSE]
WLoop7  == [pc |-> "loop", i |-> 1, tgt |-> NoKeys7]
UiIdle7 == [pc |-> "idle", i |-> 1]

InitK7 ==
    /\ k7_mode = "IDLE"
    /\ k7_pressed = NoKeys7
    /\ k7_line = NoKeys7
    /\ k7_w = WLoop7
    /\ k7_ui = UiIdle7

\* run(): one iteration that finds mode == 'GAME'.  A block above the respawn
\* threshold presses and releases the respawn key and returns; any other block
\* enters apply_keys with the wanted state of the four keys.
K7GameBlock(m) ==
    /\ k7_w.pc = "loop"
    /\ k7_mode = "GAME"
    /\ LET r == handle_game_logic(m, NoKeys7, CalibratedThresh7) IN
         k7_w' = IF r.trig THEN k7_w
                 ELSE [pc |-> "test", i |-> 1, tgt |-> r.pressed]
    /\ UNCHANGED <<k7_mode, k7_pressed, k7_line, k7_ui>>

\* run(): the iteration of handle_calibration that finds the buffer full
\* ("self.mode = 'IDLE'")
K7CalibDone ==
    /\ k7_w.pc = "loop"
    /\ k7_mode = "CALIBRATING"
    /\ k7_mode' = "IDLE"
    /\ UNCHANGED <<k7_pressed, k7_line, k7_w, k7_ui>>

\* the position after list position a.i of apply_keys
WNext7(a) == IF a.i < Len(KeyOrder7) THEN [a EXCEPT !.pc = "test", !.i = a.i + 1]
             ELSE WLoop7

\* apply_keys: "if s and not self.pressed[k]" / "elif not s and self.pressed[k]"
K7ApplyTest ==
    /\ k7_w.pc = "test"
    /\ LET k == KeyOrder7[k7_w.i]
           s == k7_w.tgt[k]
       IN  k7_w' = IF s /\ ~k7_pressed[k] THEN [k7_w EXCEPT !.pc = "down"]
                   ELSE IF ~s /\ k7_pressed[k] THEN [k7_w EXCEPT !.pc = "up"]
                   ELSE WNext7(k7_w)
    /\ UNCHANGED <<k7_mode, k7_pressed, k7_line, k7_ui>>

\* apply_keys: "pydirectinput.keyDown(k); self.pressed[k]=True"
K7KeyDown ==
    /\ k7_w.pc = "down"
    /\ k7_line' = [k7_line EXCEPT ![KeyOrder7[k7_w.i]] = TRUE]
    /\ k7_pressed' = [k7_pressed EXCEPT ![KeyOrder7[k7_w.i]] = TRUE]
    /\ k7_w' = WNext7(k7_w)
    /\ UNCHANGED <<k7_mode, k7_ui>>

\* apply_keys: "pydirectinput.keyUp(k); self.pressed[k]=False"
K7KeyUp ==
    /\ k7_w.pc = "up"
    /\ k7_line' = [k7_line EXCEPT ![KeyOrder7[k7_w.i]] = FALSE]
    /\ k7_pressed' = [k7_pressed EXCEPT ![KeyOrder7[k7_w.i]] = FALSE]
    /\ k7_w' = WNext7(k7_w)
    /\ UNCHANGED <<k7_mode, k7_ui>>

\* reset_program: "self.worker.mode = 'IDLE'", then release_all_keys begins
K7ResetProgram ==
    /\ k7_ui.pc = "idle"
    /\ k7_mode' = "IDLE"
    /\ k7_ui' = [pc |-> "test", i |-> 1]
    /\ UNCHANGED <<k7_pressed, k7_line, k7_w>>

\* the position after position u.i of release_all_keys
UiNext7(u) == IF u.i < Len(ReleaseOrder7) THEN [pc |-> "test", i |-> u.i + 1]
              ELSE UiIdle7

\* release_all_keys: "if self.pressed[k]"
K7ReleaseTest ==
    /\ k7_ui.pc = "test"
    /\ k7_ui' = IF k7_pressed[ReleaseOrder7[k7_ui.i]] THEN [k7_ui EXCEPT !.pc = "up"]
                ELSE UiNext7(k7_ui)
    /\ UNCHANGED <<k7_mode, k7_pressed, k7_line, k7_w>>

\* release_all_keys: "pydirectinput.keyUp(k); self.pressed[k] = False"
K7ReleaseKeyUp ==
    /\ k7_ui.pc = "up"
    /\ k7_line' = [k7_line EXCEPT ![ReleaseOrder7[k7_ui.i]] = FALSE]
    /\ k7_pressed' = [k7_pressed EXCEPT ![ReleaseOrder7[k7_ui.i]] = FALSE]
    /\ k7_ui' = UiNext7(k7_ui)
    /\ UNCHANGED <<k7_mode, k7_w>>

\* trigger_calib_step: start_calibration_step sets mode = 'CALIBRATING'
K7TriggerCalibStep ==
    /\ k7_ui.pc = "idle"
    /\ k7_mode = "IDLE"
    /\ k7_mode' = "CALIBRATING"
    /\ UNCHANGED <<k7_pressed, k7_line, k7_w, k7_ui>>

\* finish_calibration: "self.worker.mode = 'GAME'"
K7FinishCalibration ==
    /\ k7_ui.pc = "idle"
    /\ k7_mode = "IDLE"
    /\ k7_mode' = "GAME"
    /\ UNCHANGED <<k7_pressed, k7_line, k7_w, k7_ui>>

StepK7 ==
    \/ \E m \in KeyBlocks7 : K7GameBlock(m)
    \/ K7CalibDone
    \/ K7ApplyTest
    \/ K7KeyDown
    \/ K7KeyUp
    \/ K7ResetProgram
    \/ K7ReleaseTest
    \/ K7ReleaseKeyUp
    \/ K7TriggerCalibStep
    \/ K7FinishCalibration

vars == <<varsT10, varsT8, varsT11, varsT7, varsFlt, varsSm, varsK7>>

Init == InitT10 /\ InitT8 /\ InitT11 /\ InitT7 /\ InitFlt /\ InitSm /\ InitK7

NextT10 == StepT10 /\ UNCHANGED <<varsT8, varsT11, varsT7, varsFlt, varsSm, varsK7>>

NextT8 == StepT8 /\ UNCHANGED <<varsT10, varsT11, varsT7, varsFlt, varsSm, varsK7>>

NextT11 == StepT11 /\ UNCHANGED <<varsT10, varsT8, varsT7, varsFlt, varsSm, varsK7>>

NextT7 == StepT7 /\ UNCHANGED <<varsT10, varsT8, varsT11, varsFlt, varsSm, varsK7>>

NextFlt == StepFlt /\ UNCHANGED <<varsT10, varsT8, varsT11, varsT7, varsSm, varsK7>>

NextSm == StepSm /\ UNCHANGED <<varsT10, varsT8, varsT11, varsT7, varsFlt, varsK7>>

NextK7 == StepK7 /\ UNCHANGED <<varsT10, varsT8, varsT11, varsT7, varsFlt, varsSm>>

SpecT10 == Init /\ [][NextT10]_vars

SpecT8 == Init /\ [][NextT8]_vars

SpecT11 == Init /\ [][NextT11]_vars

SpecT7 == Init /\ [][NextT7]_vars

SpecFlt == Init /\ [][NextFlt]_vars

SpecSm == Init /\ [][NextSm]_vars

SpecK7 == Init /\ [][NextK7]_vars

\* the steps of the worker thread that the scheduler takes whenever it can:
\* an iteration of run()'s loop (stream.read delivers a block) or its exit
Worker7 ==
    /\ \/ \E m \in CalibBlocks7(t7_calib_step, Len(t7_calib_buffer)) : T7CalibBlock(m)
       \/ \E m \in GameBlocks7 : T7GameBlock(m)
       \/ T7IdleBlock
       \/ T7CalibStats
       \/ T7Exit
    /\ UNCHANGED <<varsT10, varsT8, varsT11, varsFlt, varsSm, varsK7>>

\* the Qt event loop delivers a queued calibration_finished
UIEvent7 == T7OnCalibStepComplete /\ UNCHANGED <<varsT10, varsT8, varsT11, varsFlt, varsSm, varsK7>>

\* Test7 with a worker thread that keeps running and an event loop that
\* keeps delivering; what the user does and whether a read fails is free
SpecT7Fair == SpecT7 /\ WF_vars(Worker7) /\ WF_vars(UIEvent7)

(***************************************************************************)
(* Claims about Test10.py, checked under SpecT10                           *)
(***************************************************************************)

\* every process_loop thread that was started has left its loop
AllWorkersExited10 == \A w \in Workers10 : t10_pc[w] \in {"unborn", "done"}

\* C1: once stop() has returned and every worker has finished its in-flight
\* iteration and left the loop, no key line is in the down state.
C1_StopReleasesEveryLine ==
    (t10_ui.pc = "idle" /\ ~t10_running /\ AllWorkersExited10)
        => \A k \in KeyNames : t10_lastEv[k] # "down"

\* C2: while calibrating is set, no worker runs the decision tree and the sink
\* receives no keyDown, keyUp or press.
C2_CalibratingSuspendsClassifier ==
    [][t10_calibrating =>
          /\ t10_lastEv' = t10_lastEv
          /\ t10_dupDown' = t10_dupDown
          /\ t10_dupUp' = t10_dupUp
          /\ \A w \in Workers10 : ~(t10_pc[w] = "decide" /\ t10_pc'[w] = "apply")]_vars

\* C3: for every key line the sink's keyDown and keyUp events alternate,
\* starting with keyDown, and pressed[k] is true exactly when the last event
\* for k was keyDown.
C3_SinkEventsAlternate ==
    /\ ~t10_dupDown
    /\ ~t10_dupUp
    /\ \A k \in KeyNames : t10_pressed[k] <=> (t10_lastEv[k] = "down")

\* worker w has just evaluated the decision tree on the thresholds
DecideStep10(w) == t10_pc[w] = "decide" /\ t10_pc'[w] = "apply"

\* finish() has assigned some of the five threshold fields and not yet all
PartlyWritten10 == t10_ui.pc = "fin_write" /\ t10_ui.i > 1

\* C15: no worker evaluates the decision tree on a threshold set of which
\* finish() has written some fields and not yet the others.
C15_ThresholdsAppliedAtomically ==
    [][\A w \in Workers10 : DecideStep10(w) => ~PartlyWritten10]_vars

(***************************************************************************)
(* Claims about Test8.py, checked under SpecT8                             *)
(***************************************************************************)

\* a block has just been processed by the run loop
BlockStep8 == t8_nblocks' = t8_nblocks + 1

\* C5: while the volume stays above the clap threshold over consecutive
\* blocks, the respawn key is pressed at most once for that rising edge (the
\* "never twice" half of "exactly once").
C5_TriggerOncePerRisingEdge == t8_loud => t8_edgePresses <= 1

\* C7: when decide returns a non-RESPAWN command different from the previous
\* non-RESPAWN command, at least DECISION_HOLD has passed since that previous
\* command was first returned.
C7_DwellBetweenCommandChanges ==
    [][(BlockStep8 /\ t8_cmd # "None" /\ t8_cmd' # t8_cmd)
          => t8_now' - t8_cmdTime >= DECISION_HOLD]_vars

\* C8: a vector above the clap threshold that arrives inside the hold window
\* of a previous non-RESPAWN command yields RESPAWN, and a sustained loud
\* sound does not press the respawn key again.
C8_TriggerBypassesDwell ==
    /\ [][(/\ BlockStep8
           /\ GT(t8_m'.vol, t8_thresh.clap)
           /\ t8_last_action \notin {"None", "RESPAWN"}
           /\ t8_now' - t8_last_time < DECISION_HOLD)
             => t8_ret' = "RESPAWN"]_vars
    /\ [](t8_loud => t8_edgePresses <= 1)

\* C9: once decide has been called with a vector after the hold window has
\* elapsed, every following call with the same vector returns the same
\* command and leaves the same keys pressed.
C9_SteadyToneIdempotent ==
    t8_steadyN > 0 => (t8_ret = t8_steadyRet /\ t8_pressed = t8_steadyKeys)

\* a steady tone of three calls, the later ones answered from inside the hold
\* window, holding LEFT
C9_Witness ==
    /\ t8_steadyN = 3
    /\ t8_ret = "LEFT"
    /\ t8_pressed[KEY_LEFT8]
    /\ t8_now - t8_last_time > 0
    /\ t8_now - t8_last_time < DECISION_HOLD

\* C16: once the worker has left run (by the loop test or by an exception), no
\* key is down at the command sink.
C16_ExitLeavesAllReleased ==
    t8_pc \in {"done", "crashed"} => \A k \in DOMAIN t8_lastEv : t8_lastEv[k] # "down"

(***************************************************************************)
(* Claims about Test11.py, checked under SpecT11                           *)
(***************************************************************************)

\* C6: between two processed blocks the respawn key line ("enter") is never
\* left in the down state.
C6_TriggerNeverHeld == ~t11_line["enter"]

(***************************************************************************)
(* Claims about Test7.py, checked under SpecT7                             *)
(***************************************************************************)

\* the worker's loop has just run one iteration in mode GAME
GameStep7 == t7_tick' # t7_tick /\ t7_mode = "GAME"

\* C4: under every threshold set calibration produces, a block whose volume is
\* below the silence threshold is classified as idle: the status is "...",
\* the four direction keys are released and the respawn key is not pressed.
C4_BelowSilenceIsIdle ==
    [][(GameStep7 /\ LT(t7_m'.vol, t7_thresh.silence))
         => (/\ t7_status' = "..."
             /\ ~t7_trig'
             /\ \A k \in Pressed7Keys : ~t7_pressed'[k])]_vars

\* mid/(low+1) of block m is above the vowel threshold
AboveVowel7(m) == RatioGT(m.mid, m.low, t7_thresh.ratio_oe)

\* C10: over a run of voiced blocks that differ only in a rising mid/(low+1),
\* the vowel decision changes at most once, it changes exactly when the run
\* has crossed ratio_oe, and it is RIGHT up to ratio_oe and LEFT above it.
C10_VowelSplitMonotonic ==
    t7_sweep.n > 0 =>
        /\ t7_sweep.flips <= 1
        /\ (t7_sweep.flips = 1) <=> (~AboveVowel7(t7_sweep.first) /\ AboveVowel7(t7_sweep.prev))
        /\ t7_status = IF AboveVowel7(t7_sweep.prev) THEN "LEFT" ELSE "RIGHT"

\* a sweep of three blocks that started as RIGHT below ratio_oe, flipped once
\* and is LEFT at ten times the starting ratio
C10_Witness ==
    /\ t7_sweep.n = 3
    /\ t7_sweep.first = Vowel1
    /\ t7_sweep.prev = Vowel10
    /\ t7_sweep.flips = 1
    /\ t7_status = "LEFT"
    /\ t7_pressed[KEY_LEFT7]
    /\ ~t7_pressed[KEY_RIGHT7]

\* the set of elements of a sequence
SeqRange(s) == {s[i] : i \in 1..Len(s)}

\* the sound each calibration stage asks the user for
ClassBlocks7(stage) ==
    CASE stage = 0 -> {Quiet}
      [] stage = 1 -> {VoicedO}
      [] stage = 2 -> {VoicedE}
      [] stage = 3 -> {Shh}
      [] stage = 4 -> {Sss}
      [] OTHER    -> {Clap}

\* the current session has completed all six stages, each from recorded
\* blocks of its own sound; the clap stage recorded at least one clap, the
\* rest of its window was quiet
ConsistentSession7 ==
    /\ \A st \in 0..(NumStages7 - 1) : t7_rec[st] # <<>>
    /\ \A st \in 0..(NumStages7 - 2) : SeqRange(t7_rec[st]) \subseteq ClassBlocks7(st)
    /\ Clap \in SeqRange(t7_rec[NumStages7 - 1])
    /\ SeqRange(t7_rec[NumStages7 - 1]) \subseteq {Clap, Quiet}

\* what handle_game_logic does with block x when no key is pressed, under the
\* current thresholds
Classify7(x) == handle_game_logic(x, [k \in Pressed7Keys |-> FALSE], t7_thresh)

\* the keys that are down in pressed
Down7(pressed) == {k \in Pressed7Keys : pressed[k]}

C18_ZeroVectorIsIdle ==
    t11_feat = Zero11 => (t11_final_cmd = "IDLE" /\ \A k \in KeyNames : ~t11_line[k])

(***************************************************************************)
(* Claims about the calibration wizard of Test11.py, checked under SpecT11 *)
(***************************************************************************)

\* finish() has just run
FinishStep11 == t11_wiz = Len(WizSteps11) + 1 /\ t11_wiz' = 0

\* C12: after the silence step, the silence threshold is
\* max(mean(volumes) * 2.0, 500) for the recorded list of volumes.
C12_SilenceThreshold ==
    [][FinishStep11 =>
         t11_thresh'.thresh_silence =
             RatMax(RatMul(Mean(SeqMap(Rms11, t11_results[1])), R(2)), R(500))]_vars

(***************************************************************************)
(* Claims about the calibration of Test7.py, checked under SpecT7          *)
(***************************************************************************)

\* C13: once the clap stage of the session has been handled, the respawn
\* threshold is 0.8 times the largest volume of the blocks its result was
\* computed from (the peak, not the mean).
C13_TriggerIsPeak ==
    t7_rec[5] # <<>> =>
        t7_thresh.respawn = RatMul(RatMaxSeq(SeqMap(Vol7, t7_rec[5])), Rat(4, 5))

\* the clap stage was computed from a window with a clap and a quiet block:
\* peak 20000, mean 10050, threshold 16000
C13_Witness ==
    /\ SeqRange(t7_rec[5]) = {Clap, Quiet}
    /\ t7_calib_stage = NumStages7
    /\ t7_thresh.respawn = R(16000)

\* C14: in every state every threshold is at least 0 and the silence
\* threshold is below the respawn threshold.
C14_ThresholdSetInvariant ==
    /\ \A f \in DOMAIN t7_thresh : ~RatLT(t7_thresh[f], R(0))
    /\ RatLT(t7_thresh.silence, t7_thresh.respawn)

\* C17: after one or two failed block reads in a row the worker is still in
\* its loop; after three in a row the mode is IDLE and every key is released.
C17_CaptureFaultEscalation ==
    /\ t7_faults \in {1, 2} => t7_pc = "loop"
    /\ t7_faults >= 3 => (t7_mode = "IDLE" /\ \A k \in Pressed7Keys : ~t7_pressed[k])

\* every sample of the OOO step or of the EEE step has a volume that does not
\* exceed the silence threshold finish() computes
VowelStepFiltered10 ==
    /\ Len(t10_results) = 6
    /\ \E i \in {2, 3} : \A j \in 1..Len(t10_results[i]) :
           ~GT(t10_results[i][j].vol, Finish10(t10_results).silence_thresh)

\* C20: when a vowel step of the wizard is filtered out entirely, finish()
\* leaves pitch_thresh and ratio_oe at the values they had.
C20_FilteredVowelKeepsPrior ==
    [][(t10_ui.pc = "fin_write" /\ VowelStepFiltered10)
        => /\ t10_thresh'.pitch_thresh = t10_thresh.pitch_thresh
           /\ t10_thresh'.ratio_oe = t10_thresh.ratio_oe]_vars

\* the worker leaves handle_calibration's else branch
StatsStep7 == t7_pc = "stats" /\ t7_pc' # "stats"

\* C19: a calibration step whose buffer is empty when its statistics are
\* taken still hands a result to the UI and the worker keeps running.
C19_EmptyBufferFallsBack ==
    [][(StatsStep7 /\ t7_calib_buffer = <<>>)
        => (t7_pc' = "loop" /\ Len(t7_queue') = Len(t7_queue) + 1)]_vars

\* C21: a calibration step that is recording (worker.mode is CALIBRATING)
\* eventually stops recording.
C21_CalibrationStepTerminates ==
    (t7_mode = "CALIBRATING") ~> (t7_mode # "CALIBRATING")

\* C22: the filtered blocks of Test8 / Test7, put end to end, are the filter's
\* output for the whole signal read so far.
C22_FilterContinuity == flt_out8 = sosfilt(HpSos, flt_in)

\* audio_monitor_2 carries the state: its blocks, put end to end, are the
\* output of one lfilter call over the whole signal
MonitorContinuity == flt_out_m = lfilter(MonitorBA, flt_in, lfilter_zi).y

\* C23: whenever the left or the right key is down at the sink of Test11, the
\* accelerate key ('up') is down as well.
C23_SteeringImpliesAccelerate ==
    (t11_line["left"] \/ t11_line["right"]) => t11_line["up"]

\* the UI handles a queued calibration_finished (on_calib_step_complete)
CalibEvent7 == t7_queue # <<>> /\ t7_queue' = Tail(t7_queue)

\* C24: a step of Test7 that changes worker.thresh is the handling of a
\* calibration result; classification, key application, pause, reset and
\* stop leave every threshold as it was.
C24_ThresholdsWrittenOnlyByCalibration ==
    [][t7_thresh' # t7_thresh => CalibEvent7]_vars

\* the game classifies a block above a calibrated silence threshold while
\* calibrated thresholds are in force
C24_Witness ==
    /\ t7_mode = "GAME"
    /\ t7_status \in {"LEFT", "RIGHT", "GAS", "BRAKE"}
    /\ t7_thresh.pitch # R(0)

\* m is in the unvoiced branch: silence < vol <= respawn and pitch not above
\* the gate
Unvoiced7(m, th) ==
    /\ GT(m.vol, th.silence)
    /\ ~GT(m.vol, th.respawn)
    /\ ~GT(m.pitch, th.pitch)

\* C25: a block of the unvoiced branch whose high/(mid+1) exceeds 5 is
\* classified GAS with only the accelerate key down, whatever ratio_ssh is.
C25_FricativeCeiling ==
    [][(GameStep7 /\ Unvoiced7(t7_m', t7_thresh) /\ RatioGT(t7_m'.high, t7_m'.mid, R(5)))
         => (/\ t7_status' = "GAS"
             /\ ~t7_trig'
             /\ Down7(t7_pressed') = {KEY_ACCEL7})]_vars

\* a block with ratio 5.2 was classified GAS while ratio_ssh is above 5.2
C25_Witness ==
    /\ t7_mode = "GAME"
    /\ t7_m = Hiss
    /\ t7_status = "GAS"
    /\ ~RatioGT(Hiss.high, Hiss.mid, t7_thresh.ratio_ssh)
    /\ t7_pressed[KEY_ACCEL7]

\* what handle_calibration and start_calibration_step do to the buffer in one
\* step: the capture button empties it and sets CALIBRATING; it never holds
\* more than calib_target_samples; it changes only by being emptied or by one
\* block appended in a CALIBRATING iteration; a calibration_finished is
\* computed over the full buffer and leaves the mode IDLE
RecordingStep7 ==
    /\ (t7_btn_enabled /\ ~t7_btn_enabled')
          => (t7_calib_buffer' = <<>> /\ t7_mode' = "CALIBRATING")
    /\ Len(t7_calib_buffer') <= calib_target_samples
    /\ t7_calib_buffer' # t7_calib_buffer
          => \/ t7_calib_buffer' = <<>>
             \/ /\ t7_mode = "CALIBRATING"
                /\ t7_tick' # t7_tick
                /\ Len(t7_calib_buffer') = Len(t7_calib_buffer) + 1
                /\ SubSeq(t7_calib_buffer', 1, Len(t7_calib_buffer)) = t7_calib_buffer
    /\ Len(t7_queue') > Len(t7_queue)
          => /\ t7_queue'[Len(t7_queue')].samples = t7_calib_buffer
             /\ Len(t7_calib_buffer) = calib_target_samples
             /\ t7_mode' = "IDLE"

\* C26: the recording of a calibration step keeps to RecordingStep7, and a
\* step that has been started hands its calibration_finished to the UI.
C26_CalibrationRecording ==
    /\ [][RecordingStep7]_vars
    /\ (t7_mode = "CALIBRATING") ~> (t7_queue # <<>>)

\* C27: calib_stage moves only from a stage to the next one (or back to 0 when
\* a sequence is started), it moves on only when the stage's own step has
\* completed, and the mode becomes GAME only when the sixth stage has completed
\* and every stage of the session has a recorded result.
C27_StagesInOrder ==
    [][/\ t7_calib_stage' # t7_calib_stage
            => (t7_calib_stage' = t7_calib_stage + 1 \/ t7_calib_stage' = 0)
       /\ t7_calib_stage' = t7_calib_stage + 1
            => (CalibEvent7 /\ Head(t7_queue).step = t7_calib_stage)
       /\ (t7_mode' = "GAME" /\ t7_mode # "GAME")
            => /\ t7_calib_stage' = NumStages7
               /\ \A st \in 0..(NumStages7 - 1) : t7_rec'[st] # <<>>]_vars

\* the last min(Len(s), n) elements of s, in order
LastN(s, n) == IF Len(s) <= n THEN s ELSE SubSeq(s, Len(s) - n + 1, Len(s))

\* the current window of raw vectors
Window8 == LastN(sm_raw, SMOOTH_WIN)

\* the window holds at least three frames and all but exactly one are a
OneSpikeIn(w, a) ==
    /\ Len(w) >= 3
    /\ Cardinality({i \in 1..Len(w) : w[i] # a}) = 1

\* C28: each history is the last min(n, SMOOTH_WIN) raw values of its field in
\* arrival order, the five histories have one length, the smoothed value is
\* the median of the window, and one spike among otherwise identical frames
\* leaves the smoothed vector at the identical frames' values.
C28_SmootherWindow ==
    /\ \A k \in Fields8 : sm_hist[k] = [i \in 1..Len(Window8) |-> Window8[i][k]]
    /\ \A k \in Fields8 : Len(sm_hist[k]) = Len(sm_hist["vol"])
    /\ sm_raw # <<>> =>
          \A k \in Fields8 :
             sm_out[k] = Median([i \in 1..Len(Window8) |-> R(Window8[i][k])])
    /\ \A a \in RawFeats8 :
          OneSpikeIn(Window8, a) => \A k \in Fields8 : sm_out[k] = R(a[k])

\* more than SMOOTH_WIN blocks have arrived, the window holds one spike among
\* steady tones and the smoothed volume is the tone's
C28_Witness ==
    /\ Len(sm_raw) > SMOOTH_WIN
    /\ sm_raw[1] = Louder8
    /\ OneSpikeIn(Window8, Tone8)
    /\ Spike8 \in {Window8[i] : i \in 1..Len(Window8)}
    /\ sm_out["vol"] = R(2000)

\* the position of the latest occurrence of label c in buf
LastIndex11(buf, c) == CHOOSE i \in 1..Len(buf) :
                           buf[i] = c /\ \A j \in (i + 1)..Len(buf) : buf[j] # c

\* the most frequent label of buf; among labels with the same count, the one
\* that occurred most recently
MajorityRecent11(buf) ==
    CHOOSE c \in {buf[i] : i \in 1..Len(buf)} :
        \A e \in {buf[i] : i \in 1..Len(buf)} :
            \/ Count11(buf, c) > Count11(buf, e)
            \/ (Count11(buf, c) = Count11(buf, e)
                /\ LastIndex11(buf, c) >= LastIndex11(buf, e))

\* C29: the final command of the latest pass is the raw decision while fewer
\* than three decisions are buffered, and otherwise the most frequent label
\* of the buffer, the most recent one among equally frequent labels.
C29_MajorityPrefersRecent ==
    t11_command_buffer # <<>> =>
        t11_final_cmd = IF Len(t11_command_buffer) < 3
                        THEN t11_command_buffer[Len(t11_command_buffer)]
                        ELSE MajorityRecent11(t11_command_buffer)

\* the samples of buf whose volume is above the silence threshold
AboveSilence7(buf) ==
    LET Loud(x) == GT(x.vol, t7_thresh.silence) IN SelectSeq(buf, Loud)

\* the OOO and EEE stages of the session are done and each recorded a sample
\* above the silence threshold
VowelsDone7 ==
    /\ AboveSilence7(t7_rec[1]) # <<>>
    /\ AboveSilence7(t7_rec[2]) # <<>>

\* C30: after the two vowel stages the pitch gate is 0.4 times the smaller of
\* the two median pitch energies over the samples above the silence threshold
\* and ratio_oe is the mean of the two median mid/(low+1) ratios; after the two
\* fricative stages ratio_ssh is the mean of the two median high/(mid+1)
\* ratios; each ratio threshold lies between its two medians.
C30_VowelFricativeThresholds ==
    /\ VowelsDone7 =>
          LET po == Median(SeqMap(Pitch7, AboveSilence7(t7_rec[1])))
              pe == Median(SeqMap(Pitch7, AboveSilence7(t7_rec[2])))
              ro == Median(SeqMap(ROe7, t7_rec[1]))
              re == Median(SeqMap(ROe7, t7_rec[2]))
          IN  /\ t7_thresh.pitch = RatMul(RatMin(po, pe), Rat(2, 5))
              /\ t7_thresh.ratio_oe = RatHalf(RatAdd(ro, re))
              /\ ~RatLT(t7_thresh.ratio_oe, RatMin(ro, re))
              /\ ~RatLT(RatMax(ro, re), t7_thresh.ratio_oe)
    /\ (t7_rec[3] # <<>> /\ t7_rec[4] # <<>>) =>
          LET rsh == Median(SeqMap(RSsh7, t7_rec[3]))
              rs  == Median(SeqMap(RSsh7, t7_rec[4]))
          IN  /\ t7_thresh.ratio_ssh = RatHalf(RatAdd(rsh, rs))
              /\ ~RatLT(t7_thresh.ratio_ssh, RatMin(rsh, rs))
              /\ ~RatLT(RatMax(rsh, rs), t7_thresh.ratio_ssh)

\* the process_loop threads that have been started and have not returned
LiveWorkers10 == {w \in Workers10 : t10_pc[w] \notin {"unborn", "done"}}

\* C31: at no time are two process_loop threads of Test10 alive.
C31_AtMostOneWorker == Cardinality(LiveWorkers10) <= 1

\* C32: at the input sink the left and right keys are never down together,
\* and the accelerate and brake keys are never down together.
C32_LineExclusivity ==
    /\ ~(k7_line[KEY_LEFT7] /\ k7_line[KEY_RIGHT7])
    /\ ~(k7_line[KEY_ACCEL7] /\ k7_line[KEY_BRAKE7])

\* the same between iterations of the worker only
ExclusiveAtRest7 == k7_w.pc = "loop" => C32_LineExclusivity

\* C33: while mode is IDLE or CALIBRATING, the worker is between iterations
\* and no reset_program is in progress, every key is up at the sink.
C33_NoLineOutsideGame ==
    (k7_mode \in {"IDLE", "CALIBRATING"} /\ k7_w.pc = "loop" /\ k7_ui.pc = "idle")
        => \A k \in Pressed7Keys : ~k7_line[k]

\* C34: every calibration_finished event the UI handles carries the step tag
\* of the stage the UI is at.
C34_ResultMatchesStage ==
    [][CalibEvent7 => Head(t7_queue).step = t7_calib_stage]_vars

\* C35: a block of Test7's game whose volume is above the respawn threshold
\* presses the respawn key and leaves every key of pressed as it was.
C35_TriggerKeepsLines ==
    [][(GameStep7 /\ GT(t7_m'.vol, t7_thresh.respawn))
         => (t7_trig' /\ t7_pressed' = t7_pressed)]_vars

\* a respawn block has been handled while a direction key was down
C35_Witness ==
    /\ t7_mode = "GAME"
    /\ t7_trig
    /\ t7_status = "RESPAWN"
    /\ \E k \in Pressed7Keys : t7_pressed[k]

\* the worker emits calibration_finished
FinishedEmitted7 == Len(t7_queue') > Len(t7_queue)

\* C36: every progress value emitted during a calibration step is within
\* 0..100, the values of a step never decrease, and the last value emitted
\* before the step's calibration_finished is 100.
C36_ProgressWithinStep ==
    [][/\ \A i \in 1..Len(t7_progress') : t7_progress'[i] \in 0..100
       /\ \A i \in 1..(Len(t7_progress') - 1) : t7_progress'[i] <= t7_progress'[i + 1]
       /\ FinishedEmitted7
            => (t7_progress # <<>> /\ t7_progress[Len(t7_progress)] = 100)]_vars

\* a step has emitted a value below 100 and then 100, and its
\* calibration_finished is queued
C36_Witness ==
    /\ Len(t7_progress) > 1
    /\ t7_progress[1] < 100
    /\ t7_progress[Len(t7_progress)] = 100
    /\ t7_queue # <<>>
    /\ t7_queue[Len(t7_queue)].samples = t7_calib_buffer

\* C38: once running is False while run() is inside its loop, the loop is
\* eventually left and stop_stream has run (pc "done" is entered only through
\* stop_stream, and only once per run).
C38_WorkerTerminates ==
    (~t7_running /\ t7_pc \in {"loop", "stats"}) ~> (t7_pc = "done")

\* the first pass of process_loop after a start() that followed a stop()
FirstBlockAfterRestart11 == t11_first /\ ~t11_first' /\ t11_nthreads > 1

\* C37: the command applied for the first block after a restart is the raw
\* decision for that block, as for the first block of the first session.
C37_RestartIsFresh ==
    [][FirstBlockAfterRestart11
         => t11_final_cmd' = decide_command(t11_feat', t11_thresh)]_vars

=====
